---------------------------- MODULE Spec2Model ----------------------------
(***************************************************************************)
(* A model of the PyLabRobot resource tree: HamiltonDeck placement and     *)
(* collision detection, Carrier site bookkeeping and the PlateHolder       *)
(* sinking / stack-callback logic.                                         *)
(*                                                                         *)
(* Lengths are integers in micrometres (0.001 mm), so that the rail pitch  *)
(* of 22.5 mm and round(z, 2) are exact integer operations.                *)
(*                                                                         *)
(* The tree state is the record St: every operation of the program is an   *)
(* operator from a tree state (and its arguments) to a result record       *)
(* [out, t] or [out, t, val]: out is "ok" or the exception raised, t the    *)
(* tree state the call leaves behind (with whatever it changed before it   *)
(* raised), val the value returned.                                        *)
(***************************************************************************)
EXTENDS Integers, Sequences, FiniteSets, TLC

VARIABLES
  parent,            \* Resource.parent            (None when unassigned)
  children,          \* Resource.children          (ordered)
  location,          \* Resource.location          (NoLoc is Python's None)
  sites,             \* Carrier.sites              (dict idx -> holder, as a sequence)
  did_assign_cbs,    \* Resource._did_assign_resource_callbacks   (holders whose
                     \*   _update_resource_stack_location is registered, in order)
  did_unassign_cbs,  \* Resource._did_unassign_resource_callbacks (holders whose
                     \*   _deregister_resource_stack_callback is registered)
  last,              \* the last call made: its name, arguments and outcome
  lay,               \* load_from_lay_file: its locals and its position
  pump,              \* Pump: its calibration, and what the backend and the
                     \*   event loop were asked to do, in order
  calc,              \* height_functions: the arguments of a solver call and the
                     \*   locals of the bisection loop
  fan,               \* HamiltonHepaFan: its device and the commands written to it
  trash96            \* HamiltonSTARDeck._trash96 (Unset while the attribute is not set)

vars == <<parent, children, location, sites, did_assign_cbs, did_unassign_cbs, last,
          lay, pump, calc, fan, trash96>>

-----------------------------------------------------------------------------
(* Bounds of the model *)

\* number of rails of the modelled deck (HamiltonSTARDeck(num_rails=...))
NumRails == 2
\* number of sites the modelled carrier is constructed with
NSites == 2
\* cap on how often one callback is registered on one resource
MaxReg == 2
\* cap on the entries Carrier.assign_child_resource adds to Carrier.sites
MaxExtraSites == 1
\* cap on the members of a stack
MaxStack == 2
\* cap on the records of a layout
MaxRecords == 3
\* cap on the commands and sleeps a pump's log holds
MaxLog == 3
\* cap on the commands written to a fan's device
MaxWritten == 7

-----------------------------------------------------------------------------
(* The objects of the model and their fixed attributes *)

None == "None"
NoLoc == <<>>

Coordinate(x, y, z) == <<x, y, z>>
CoordAdd(a, b) == <<a[1] + b[1], a[2] + b[2], a[3] + b[3]>>
CoordNeg(a) == <<0 - a[1], 0 - a[2], 0 - a[3]>>
CoordZero == <<0, 0, 0>>

Min(a, b) == IF a <= b THEN a ELSE b
Abs(a) == IF a < 0 THEN 0 - a ELSE a

\* the deck and the resources placed on it
DeckObjs == {"A", "B", "A2", "Z"}
\* the carrier, its sites and what is put on them
SiteObj(i) == "site" \o ToString(i)
SiteObjs == {SiteObj(i) : i \in 0..(NSites - 1)}
SiteIndex(o) == CHOOSE i \in 0..(NSites - 1) : SiteObj(i) = o
CarrierObjs == SiteObjs \cup {"extra", "dup", "r1", "r2"}
\* the plate holder, stacks and labware
HolderObjs == {"stackZ", "stackX", "p7", "p3", "pbad", "adapter", "tube"}

\* the layout importer: the carriers its classes build, with their capacity
LayCarriers == {"c6", "c2"}
LayCapacity(c) == IF c = "c6" THEN 6 ELSE 2
LaySite(c, i) == "carrier-" \o c \o "-spot-" \o ToString(i)
LaySites(c) == {LaySite(c, i) : i \in 0..(LayCapacity(c) - 1)}
\* the deck's two trash areas, and the labware the importer builds
LayObjs ==
  {"trash", "trash_core96", "p", "q", "w"} \cup LayCarriers
    \cup UNION {LaySites(c) : c \in LayCarriers}

Kind(o) ==
  CASE o = "deck" -> "Deck"
    [] o = "carrier" -> "Carrier"
    [] o \in LayCarriers -> "Carrier"
    [] o \in UNION {LaySites(c) : c \in LayCarriers} -> "ResourceHolder"
    [] o = "ph" -> "PlateHolder"
    [] o \in SiteObjs \cup {"extra", "dup"} -> "ResourceHolder"
    [] o \in {"stackZ", "stackX"} -> "ResourceStack"
    [] o \in {"p7", "p3", "pbad"} -> "Plate"
    [] o = "adapter" -> "PlateAdapter"
    [] OTHER -> "Resource"

IsResourceHolder(o) == Kind(o) \in {"ResourceHolder", "PlateHolder"}

\* Resource.name.  "A" and "A2" are distinct objects with one name; "dup" is a
\* holder named like site 0 of the carrier, "core96b" a second resource named
\* like the deck's 96-head trash.
Name(o) ==
  CASE o \in {"A", "A2"} -> "a"
    [] o \in SiteObjs -> "carrier-c-spot-" \o ToString(SiteIndex(o))
    [] o = "dup" -> "carrier-c-spot-0"
    [] o = "core96b" -> "trash_core96"
    [] OTHER -> o

\* Resource.get_size_x() / get_size_y(), micrometres
SizeX(o) ==
  CASE o = "A" -> 45000
    [] o = "B" -> 22500
    [] o = "A2" -> 67500
    [] o = "Z" -> 0
    [] o = "trash" -> 0
    [] o = "trash_core96" -> 82600
    [] OTHER -> 10000

SizeY(o) ==
  CASE o \in {"A", "B", "A2"} -> 497000
    [] o = "Z" -> 241200
    [] o = "trash" -> 241200
    [] o = "trash_core96" -> 122400
    [] OTHER -> 10000

\* ResourceStack.direction
Direction(o) == IF o = "stackX" THEN "x" ELSE "z"

\* the z-locations of the wells of a plate (well.location.z), micrometres
WellZs(o) ==
  CASE o = "p7" -> {7000}
    [] o = "p3" -> {3000, 3004}
    [] o = "pbad" -> {1000, 2000}
    [] OTHER -> {}

\* PlateHolder.pedestal_size_z, micrometres
PedestalSizeZ(h) == 0 - 5000

\* ResourceHolder.child_location: the base placement of an occupant
ChildLocation(h) == Coordinate(0, 0, 1000)

\* the site location given to the carrier's constructor
SiteLocation(i) == Coordinate(4000, 8000 + i * 96000, 86150)

-----------------------------------------------------------------------------
(* Tree states and results *)

St ==
  [parent |-> parent, children |-> children, location |-> location, sites |-> sites,
   did_assign_cbs |-> did_assign_cbs, did_unassign_cbs |-> did_unassign_cbs]

Ok(t) == [out |-> "ok", t |-> t, val |-> None]
OkVal(t, v) == [out |-> "ok", t |-> t, val |-> v]
Raise(e, t) == [out |-> e, t |-> t, val |-> None]

Range(s) == {s[i] : i \in 1..Len(s)}

RECURSIVE RemoveFirst(_, _)
\* list.remove(x) on a list that may not hold x
RemoveFirst(s, x) ==
  IF s = <<>> THEN <<>>
  ELSE IF Head(s) = x THEN Tail(s)
  ELSE <<Head(s)>> \o RemoveFirst(Tail(s), x)

RECURSIVE Descendants(_, _)
\* Resource.get_all_children(): every resource below o
Descendants(t, o) ==
  Range(t.children[o]) \cup UNION {Descendants(t, c) : c \in Range(t.children[o])}

RECURSIVE PathUp(_, _)
\* o, its parent, ... up to the root of its tree
PathUp(t, o) ==
  IF t.parent[o] = None THEN <<o>> ELSE <<o>> \o PathUp(t, t.parent[o])

Root(t, o) == LET p == PathUp(t, o) IN p[Len(p)]

\* the names carried in the tree that holds o
TreeNames(t, o) == {Name(x) : x \in {Root(t, o)} \cup Descendants(t, Root(t, o))}

-----------------------------------------------------------------------------
(* PlateHolder: sinking depth and the stack callbacks (carrier.py) *)

\* round(z, 2) of a length in mm: the nearest multiple of 10 micrometres, a tie
\* going to the even hundredth
Round2(z) ==
  LET q == z \div 10
      r == z % 10
  IN  IF r < 5 THEN 10 * q
      ELSE IF r > 5 THEN 10 * (q + 1)
      ELSE IF q % 2 = 0 THEN 10 * q ELSE 10 * (q + 1)

\* the set comprehension without round(., 2)
well_dz_set_unrounded(plate) == WellZs(plate)

\* the set comprehension of get_plate_sinking_depth
well_dz_set(plate) == {Round2(z) : z \in WellZs(plate)}

\* get_plate_sinking_depth with the pedestal taken with its sign (no abs)
get_plate_sinking_depth_signed(t, self, plate) ==
  IF Cardinality(well_dz_set(plate)) # 1 THEN Raise("AssertionError", t)
  ELSE LET well_dz == CHOOSE z \in well_dz_set(plate) : TRUE
       IN  OkVal(t, Min(PedestalSizeZ(self), well_dz))

\* PlateHolder._get_sinking_depth.get_plate_sinking_depth
get_plate_sinking_depth(t, self, plate) ==
  IF Cardinality(well_dz_set(plate)) # 1 THEN Raise("AssertionError", t)
  ELSE LET well_dz == CHOOSE z \in well_dz_set(plate) : TRUE
           pedestal_size_z == Abs(PedestalSizeZ(self))
       IN  OkVal(t, Min(pedestal_size_z, well_dz))

\* Resource.register_did_assign_resource_callback(holder._update_resource_stack_location)
register_did_assign_resource_callback(t, o, holder) ==
  [t EXCEPT !.did_assign_cbs[o] = Append(@, holder)]

\* Resource.register_did_unassign_resource_callback(holder._deregister_resource_stack_callback)
register_did_unassign_resource_callback(t, o, holder) ==
  [t EXCEPT !.did_unassign_cbs[o] = Append(@, holder)]

\* Resource.deregister_did_assign_resource_callback: the relationship is removed
\* (one registration of it)
deregister_did_assign_resource_callback(t, o, holder) ==
  [t EXCEPT !.did_assign_cbs[o] = RemoveFirst(@, holder)]

\* the stack branch of _get_sinking_depth registers the two callbacks
RegisterStackCallbacks(t, self, resource) ==
  register_did_unassign_resource_callback(
    register_did_assign_resource_callback(t, resource, self), self, self)

\* PlateHolder._get_sinking_depth: val is -Coordinate(z=z_sinking_depth)
PlateHolder_get_sinking_depth(t, self, resource) ==
  IF Kind(resource) = "Plate" THEN
    LET d == get_plate_sinking_depth(t, self, resource)
    IN  IF d.out # "ok" THEN d ELSE OkVal(t, CoordNeg(Coordinate(0, 0, d.val)))
  ELSE IF Kind(resource) = "ResourceStack" /\ Len(t.children[resource]) > 0 THEN
    LET first_child == t.children[resource][1]
        d == IF Kind(first_child) = "Plate"
               THEN get_plate_sinking_depth(t, self, first_child)
               ELSE OkVal(t, 0)
    IN  IF d.out # "ok" THEN d
        ELSE OkVal(RegisterStackCallbacks(t, self, resource),
                   CoordNeg(Coordinate(0, 0, d.val)))
  ELSE OkVal(t, CoordNeg(Coordinate(0, 0, 0)))

\* ResourceHolder.get_default_child_location: the base placement rule
ResourceHolder_get_default_child_location(t, self, resource) ==
  OkVal(t, ChildLocation(self))

\* PlateHolder.get_default_child_location
PlateHolder_get_default_child_location(t, self, resource) ==
  LET b == ResourceHolder_get_default_child_location(t, self, resource)
      d == PlateHolder_get_sinking_depth(b.t, self, resource)
  IN  IF d.out # "ok" THEN d ELSE OkVal(d.t, CoordAdd(b.val, d.val))

\* holder.get_default_child_location(resource), by the holder's class
get_default_child_location(t, self, resource) ==
  IF Kind(self) = "PlateHolder"
    THEN PlateHolder_get_default_child_location(t, self, resource)
    ELSE ResourceHolder_get_default_child_location(t, self, resource)

\* PlateHolder._update_resource_stack_location (a did-assign callback on a stack)
PlateHolder_update_resource_stack_location(t, self, resource) ==
  LET resource_stack == t.parent[resource]
  IN  IF resource_stack = None \/ Kind(resource_stack) # "ResourceStack"
        THEN Raise("AssertionError", t)
      ELSE IF t.children[resource_stack][1] = resource THEN
        LET d == PlateHolder_get_default_child_location(t, self, resource)
        IN  IF d.out # "ok" THEN d
            ELSE Ok([d.t EXCEPT !.location[resource_stack] = d.val])
      ELSE Ok(t)

\* PlateHolder._deregister_resource_stack_callback (a did-unassign callback on the holder)
PlateHolder_deregister_resource_stack_callback(t, self, resource) ==
  IF Kind(resource) = "ResourceStack"
    THEN Ok(deregister_did_assign_resource_callback(t, resource, self))
    ELSE Ok(t)

-----------------------------------------------------------------------------
(* Resource: the base tree operations (spec section 4.2) *)

RECURSIVE ConcatCbs(_, _)
\* the callbacks of a resource followed by those of its ancestors
ConcatCbs(f, path) ==
  IF path = <<>> THEN <<>> ELSE f[Head(path)] \o ConcatCbs(f, Tail(path))

RECURSIVE RunDidAssign(_, _, _)
\* call the did-assign callbacks in order; the first exception ends the call
RunDidAssign(t, cbs, resource) ==
  IF cbs = <<>> THEN Ok(t)
  ELSE LET r == PlateHolder_update_resource_stack_location(t, Head(cbs), resource)
       IN  IF r.out # "ok" THEN r ELSE RunDidAssign(r.t, Tail(cbs), resource)

RECURSIVE RunDidUnassign(_, _, _)
\* call the did-unassign callbacks in order; the first exception ends the call
RunDidUnassign(t, cbs, resource) ==
  IF cbs = <<>> THEN Ok(t)
  ELSE LET r == PlateHolder_deregister_resource_stack_callback(t, Head(cbs), resource)
       IN  IF r.out # "ok" THEN r ELSE RunDidUnassign(r.t, Tail(cbs), resource)

\* Resource.assign_child_resource(resource, location)
Resource_assign_child_resource(t, self, resource, loc) ==
  IF t.parent[resource] # None THEN Raise("ValueError:has-parent", t)
  ELSE IF ({Name(x) : x \in {resource} \cup Descendants(t, resource)}
            \cap TreeNames(t, self)) # {}
    THEN Raise("ValueError:name", t)
  ELSE LET t1 == [t EXCEPT !.parent[resource] = self,
                           !.location[resource] = loc,
                           !.children[self] = Append(@, resource)]
       IN  RunDidAssign(t1, ConcatCbs(t1.did_assign_cbs, PathUp(t1, self)), resource)

\* Resource.unassign_child_resource(resource)
Resource_unassign_child_resource(t, self, resource) ==
  IF t.parent[resource] # self THEN Raise("ValueError:not-a-child", t)
  ELSE LET t1 == [t EXCEPT !.parent[resource] = None,
                           !.location[resource] = NoLoc,
                           !.children[self] = RemoveFirst(@, resource)]
       IN  RunDidUnassign(t1, ConcatCbs(t1.did_unassign_cbs, PathUp(t1, self)), resource)

\* ResourceStack.assign_child_resource: the new member goes on top
ResourceStack_assign_child_resource(t, self, resource) ==
  Resource_assign_child_resource(t, self, resource,
    Coordinate(0, 0, Len(t.children[self]) * 1000))

\* ResourceStack.unassign_child_resource: only the top member of a z stack leaves
ResourceStack_unassign_child_resource(t, self, resource) ==
  IF Direction(self) = "z" /\ t.children[self] # <<>>
       /\ t.children[self][Len(t.children[self])] # resource
    THEN Raise("ValueError:not-top", t)
    ELSE Resource_unassign_child_resource(t, self, resource)

\* ResourceHolder.resource: the occupant, or None
HolderResource(t, h) == IF t.children[h] = <<>> THEN None ELSE t.children[h][1]

\* ResourceHolder.assign_child_resource(resource, location=None)
ResourceHolder_assign_child_resource(t, self, resource, loc) ==
  IF t.children[self] # <<>> THEN Raise("ValueError:holder-occupied", t)
  ELSE LET d == IF loc # NoLoc THEN OkVal(t, loc)
                ELSE get_default_child_location(t, self, resource)
       IN  IF d.out # "ok" THEN d
           ELSE Resource_assign_child_resource(d.t, self, resource, d.val)

-----------------------------------------------------------------------------
(* PlateHolder.assign_child_resource and Carrier (carrier.py) *)

\* PlateHolder.assign_child_resource without the test of the stack's members
PlateHolder_assign_child_resource_any_members(t, self, resource, loc) ==
  IF Kind(resource) = "ResourceStack" /\ Direction(resource) # "z"
    THEN Raise("ValueError:direction", t)
  ELSE IF Kind(resource) \notin {"ResourceStack", "Plate", "PlateAdapter"}
    THEN Raise("TypeError", t)
  ELSE ResourceHolder_assign_child_resource(t, self, resource, loc)

\* PlateHolder.assign_child_resource(resource, location=None)
PlateHolder_assign_child_resource(t, self, resource, loc) ==
  IF Kind(resource) = "ResourceStack" /\ Direction(resource) # "z"
    THEN Raise("ValueError:direction", t)
  ELSE IF Kind(resource) = "ResourceStack"
            /\ \E c \in Range(t.children[resource]) : Kind(c) # "Plate"
    THEN Raise("TypeError", t)
  ELSE IF Kind(resource) \notin {"ResourceStack", "Plate", "PlateAdapter"}
    THEN Raise("TypeError", t)
  ELSE ResourceHolder_assign_child_resource(t, self, resource, loc)

\* site.assign_child_resource(resource), by the site's class
Holder_assign_child_resource(t, self, resource, loc) ==
  IF Kind(self) = "PlateHolder"
    THEN PlateHolder_assign_child_resource(t, self, resource, loc)
    ELSE ResourceHolder_assign_child_resource(t, self, resource, loc)

\* Carrier.capacity
capacity(t, self) == Len(t.sites[self])

\* Carrier.assign_child_resource(resource, location)
Carrier_assign_child_resource(t, self, resource, loc) ==
  IF ~IsResourceHolder(resource) THEN Raise("TypeError", t)
  ELSE LET t1 == [t EXCEPT !.sites[self] = Append(@, resource)]
       IN  Resource_assign_child_resource(t1, self, resource, loc)

RECURSIVE Resource_unassign(_, _)

\* assign_resource_to_site that takes the occupant off the site instead of
\* refusing
Carrier_assign_resource_to_site_overwrites(t, self, resource, spot) ==
  IF spot < 0 \/ spot >= capacity(t, self) THEN Raise("IndexError", t)
  ELSE LET occupant == HolderResource(t, t.sites[self][spot + 1])
           u == IF occupant # None THEN Resource_unassign(t, occupant) ELSE Ok(t)
       IN  IF u.out # "ok" THEN u
           ELSE Holder_assign_child_resource(u.t, t.sites[self][spot + 1], resource, NoLoc)

\* Carrier.assign_resource_to_site(resource, spot)
Carrier_assign_resource_to_site(t, self, resource, spot) ==
  IF spot < 0 \/ spot >= capacity(t, self) THEN Raise("IndexError", t)
  ELSE IF HolderResource(t, t.sites[self][spot + 1]) # None
    THEN Raise("ValueError:spot-occupied", t)
  ELSE Holder_assign_child_resource(t, t.sites[self][spot + 1], resource, NoLoc)

\* unassign_child_resource that looks at the parent only, not at the parent's parent
Carrier_unassign_child_resource_any_holder(t, self, resource) ==
  IF t.parent[resource] = None \/ ~IsResourceHolder(t.parent[resource])
    THEN Raise("ValueError:not-on-carrier", t)
    ELSE Resource_unassign(t, resource)

\* Carrier.unassign_child_resource(resource)
Carrier_unassign_child_resource(t, self, resource) ==
  IF t.parent[resource] = None
       \/ ~IsResourceHolder(t.parent[resource])
       \/ t.parent[t.parent[resource]] # self
    THEN Raise("ValueError:not-on-carrier", t)
    ELSE Resource_unassign(t, resource)

\* Resource.unassign(): the parent's unassign_child_resource, by the parent's class
Resource_unassign(t, resource) ==
  LET p == t.parent[resource]
  IN  IF p = None THEN Raise("ValueError:no-parent", t)
      ELSE IF Kind(p) = "Carrier" THEN Carrier_unassign_child_resource(t, p, resource)
      ELSE IF Kind(p) = "ResourceStack"
        THEN ResourceStack_unassign_child_resource(t, p, resource)
      ELSE Resource_unassign_child_resource(t, p, resource)

\* __getitem__ answering None for an index it does not have (dict.get)
Carrier_getitem_lenient(t, self, idx) ==
  IF ~(0 <= idx /\ idx < capacity(t, self)) THEN OkVal(t, None)
  ELSE OkVal(t, t.sites[self][idx + 1])

\* Carrier.__getitem__(idx)
Carrier_getitem(t, self, idx) ==
  IF ~(0 <= idx /\ idx < capacity(t, self)) THEN Raise("IndexError", t)
  ELSE OkVal(t, t.sites[self][idx + 1])

\* the shared body of __setitem__(idx, None) and __delitem__(idx)
UnassignSite(t, self, idx) ==
  LET g == Carrier_getitem(t, self, idx)
  IN  IF g.out # "ok" THEN g
      ELSE LET assigned_resource == HolderResource(t, g.val)
           IN  IF assigned_resource # None
                 THEN Carrier_unassign_child_resource(t, self, assigned_resource)
                 ELSE Ok(t)

\* Carrier.__setitem__(idx, resource)
Carrier_setitem(t, self, idx, resource) ==
  IF resource = None THEN UnassignSite(t, self, idx)
  ELSE Carrier_assign_resource_to_site(t, self, resource, idx)

\* Carrier.__delitem__(idx)
Carrier_delitem(t, self, idx) == UnassignSite(t, self, idx)

-----------------------------------------------------------------------------
(* HamiltonDeck (hamilton_decks.py) *)

\* _RAILS_WIDTH = 22.5 mm
RAILS_WIDTH == 22500

\* Optional[int]: <<>> is None, <<n>> is n
NoRails == <<>>

\* HamiltonSTARDeck.rails_to_location
rails_to_location(rails) ==
  Coordinate(100000 + (rails - 1) * RAILS_WIDTH, 63000, 100000)

\* Deck.has_resource(name): a resource of that name is in the deck's tree
has_resource(t, self, name) == \E o \in Descendants(t, self) : Name(o) = name

\* Deck.get_resource(name)
get_resource(t, self, name) == CHOOSE o \in Descendants(t, self) : Name(o) = name

\* the test of lines 136-144 on one axis: a corner of the new resource is inside
\* the span of the resource already there
axis_overlap(og, og_size, new, new_size) ==
  \/ (og <= new /\ new < og + og_size)
  \/ (og < new + new_size /\ new + new_size < og + og_size)

\* the if of lines 136-144 for one child of the deck
collides(og_loc, og_resource, resource_location, resource) ==
  /\ axis_overlap(og_loc[1], SizeX(og_resource), resource_location[1], SizeX(resource))
  /\ axis_overlap(og_loc[2], SizeY(og_resource), resource_location[2], SizeY(resource))

RECURSIVE check_space(_, _, _, _)
\* the loop of lines 130-146 over self.children, in order
check_space(t, ogs, resource, resource_location) ==
  IF ogs = <<>> THEN Ok(t)
  ELSE LET og_resource == Head(ogs)
       IN  IF t.location[og_resource] = NoLoc
             THEN [out |-> "AttributeError", t |-> t, val |-> og_resource]
           ELSE IF collides(t.location[og_resource], og_resource,
                            resource_location, resource)
             THEN [out |-> "ValueError:occupied", t |-> t, val |-> og_resource]
           ELSE check_space(t, Tail(ogs), resource, resource_location)

\* the fit test with >= for >
does_not_fit_at_edge(num_rails, resource, resource_location, rails) ==
  /\ resource_location[1] + SizeX(resource) >= rails_to_location(num_rails + 1)[1]
  /\ rails # NoRails

\* lines 123-127: the resource does not fit at the rails
does_not_fit(num_rails, resource, resource_location, rails) ==
  /\ resource_location[1] + SizeX(resource) > rails_to_location(num_rails + 1)[1]
  /\ rails # NoRails

\* lines 115-120: the location the resource is assigned at
resolve_location(loc, rails) ==
  IF rails # NoRails THEN rails_to_location(rails[1])
  ELSE IF loc # NoLoc THEN loc
  ELSE NoLoc

\* check_name with the replace flag ignored: the bearer is always unassigned
check_name_always_replaces(t, self, resource, replace) ==
  IF has_resource(t, self, Name(resource))
    THEN Resource_unassign(t, get_resource(t, self, Name(resource)))
    ELSE Ok(t)

\* lines 107-113: the name check, with the unassign of replace=True
check_name(t, self, resource, replace) ==
  IF has_resource(t, self, Name(resource)) THEN
    IF replace THEN Resource_unassign(t, get_resource(t, self, Name(resource)))
    ELSE Raise("ValueError:name-defined", t)
  ELSE Ok(t)

\* the rails range with 0 let through
rails_out_of_range_from_zero(num_rails, rails) ==
  rails # NoRails /\ ~(0 <= rails[1] /\ rails[1] <= num_rails)

\* lines 104-105: the rails number is out of range
rails_out_of_range(num_rails, rails) ==
  rails # NoRails /\ ~(1 <= rails[1] /\ rails[1] <= num_rails)

\* HamiltonDeck.assign_child_resource(resource, location, rails, replace)
HamiltonDeck_assign_child_resource(t, self, resource, loc, rails, replace) ==
  IF rails_out_of_range(NumRails, rails) THEN Raise("ValueError:rails", t)
  ELSE
    LET n == check_name(t, self, resource, replace)
        resource_location == resolve_location(loc, rails)
    IN  IF n.out # "ok" THEN n
        ELSE IF resource_location # NoLoc
                  /\ does_not_fit(NumRails, resource, resource_location, rails)
          THEN Raise("ValueError:fit", n.t)
        ELSE LET c == IF resource_location # NoLoc
                        THEN check_space(n.t, n.t.children[self], resource,
                                         resource_location)
                        ELSE Ok(n.t)
             IN  IF c.out # "ok" THEN c
                 ELSE Resource_assign_child_resource(n.t, self, resource,
                                                     resource_location)

-----------------------------------------------------------------------------
(* The state machine *)

\* every resource freshly constructed: no parent, no location, no children
EmptyTree(U) ==
  [parent |-> [o \in U |-> None],
   children |-> [o \in U |-> <<>>],
   location |-> [o \in U |-> NoLoc],
   sites |-> [o \in U |-> <<>>],
   did_assign_cbs |-> [o \in U |-> <<>>],
   did_unassign_cbs |-> [o \in U |-> <<>>]]

\* no layout is being imported
NoLay ==
  [records |-> <<>>, i |-> 1, containers |-> <<>>, children |-> <<>>,
   k |-> 0, j |-> 0, error |-> None, warnings |-> 0]

\* the tree after a step
TreeBecomes(t) ==
  /\ parent' = t.parent
  /\ children' = t.children
  /\ location' = t.location
  /\ sites' = t.sites
  /\ did_assign_cbs' = t.did_assign_cbs
  /\ did_unassign_cbs' = t.did_unassign_cbs

\* the tree at the start
TreeIs(t) ==
  /\ parent = t.parent
  /\ children = t.children
  /\ location = t.location
  /\ sites = t.sites
  /\ did_assign_cbs = t.did_assign_cbs
  /\ did_unassign_cbs = t.did_unassign_cbs

\* Pump.calibration is None
NoCalibration == [calibration_mode |-> None, value |-> 0]

\* no pump is constructed
NoPump == [calibration |-> NoCalibration, log |-> <<>>]

\* no solver is called
NoCalc == [pc |-> "none"]
\* a fan backend before setup(): no dev attribute, nothing written
NoFan == [dev |-> None, written |-> <<>>]
\* an attribute that was never assigned
Unset == "unset"

SetTree(t) == TreeBecomes(t) /\ UNCHANGED <<lay, pump, calc, fan, trash96>>

InitTree(t) ==
  /\ TreeIs(t)
  /\ lay = NoLay /\ pump = NoPump /\ calc = NoCalc /\ fan = NoFan /\ trash96 = Unset

NoCall == [op |-> "init", self |-> None, resource |-> None, arg |-> <<>>,
           out |-> "ok", val |-> None]

Call(op, self, resource, arg, r) ==
  [op |-> op, self |-> self, resource |-> resource, arg |-> arg,
   out |-> r.out, val |-> r.val]

(* --- the deck --- *)

\* the explicit locations a caller places resources at
DeckLocs ==
  {Coordinate(88750, 63000, 100000),
   Coordinate(100000, 560000, 100000)}

\* the rails arguments tried: None, and 0 .. num_rails + 1
RailsArgs == {NoRails} \cup {<<r>> : r \in 0..(NumRails + 1)}

\* the (location, rails) arguments tried: neither, one of them, or both
PlaceArgs ==
  ((DeckLocs \cup {NoLoc}) \X {NoRails})
    \cup ({NoLoc} \X RailsArgs)
    \cup (DeckLocs \X {<<1>>})

\* which of location / rails a call gives
Given(loc, rails) ==
  IF loc # NoLoc /\ rails # NoRails THEN "both"
  ELSE IF rails # NoRails THEN "rails"
  ELSE IF loc # NoLoc THEN "location"
  ELSE "neither"

\* the resource of the deck's tree that bears the name of resource when a call is made
Bearer(t, self, resource) ==
  IF has_resource(t, self, Name(resource))
    THEN get_resource(t, self, Name(resource)) ELSE None

\* a deck, and resource B built with a child A2 before it is placed
InitDeck ==
  /\ InitTree(Resource_assign_child_resource(EmptyTree({"deck"} \cup DeckObjs),
                                             "B", "A2", CoordZero).t)
  /\ last = NoCall

\* deck.assign_child_resource(resource, location=loc, rails=rails, replace=replace)
DeckAssign(resource, loc, rails, replace) ==
  LET r == HamiltonDeck_assign_child_resource(St, "deck", resource, loc, rails, replace)
  IN  /\ SetTree(r.t)
      /\ last' = Call("deck.assign_child_resource", "deck", resource,
                      [replace |-> replace, bearer |-> Bearer(St, "deck", resource)], r)

\* resource.unassign() of a resource of the deck's universe
DeckUnassign(resource) ==
  LET r == Resource_unassign(St, resource)
  IN  /\ SetTree(r.t)
      /\ last' = Call("unassign", parent[resource], resource, <<>>, r)

NextDeck ==
  \/ \E resource \in DeckObjs, place \in PlaceArgs, replace \in BOOLEAN :
        DeckAssign(resource, place[1], place[2], replace)
  \/ \E resource \in DeckObjs : DeckUnassign(resource)

SpecDeck == InitDeck /\ [][NextDeck]_vars

(* --- the carrier --- *)

CarrierU == {"carrier"} \cup CarrierObjs

RECURSIVE CarrierInit(_, _)
\* Carrier.__init__: the sites, each with its location, are assigned in order
CarrierInit(t, i) ==
  IF i = NSites THEN t
  ELSE CarrierInit(
         Carrier_assign_child_resource(
           [t EXCEPT !.location[SiteObj(i)] = SiteLocation(i)],
           "carrier", SiteObj(i), SiteLocation(i)).t,
         i + 1)

InitCarrier ==
  /\ InitTree(CarrierInit(EmptyTree(CarrierU), 0))
  /\ last = NoCall

\* the resources a caller puts on sites, and the spots and indices it names
Occupants == {"r1", "r2", "extra"}
Spots == (0 - 1)..(NSites + MaxExtraSites)

\* carrier.assign_resource_to_site(resource, spot)
AssignResourceToSite(resource, spot) ==
  LET r == Carrier_assign_resource_to_site(St, "carrier", resource, spot)
  IN  /\ SetTree(r.t)
      /\ last' = Call("assign_resource_to_site", "carrier", resource, [idx |-> spot], r)

\* carrier[idx]
GetItem(idx) ==
  LET r == Carrier_getitem(St, "carrier", idx)
  IN  /\ SetTree(r.t)
      /\ last' = Call("getitem", "carrier", None, [idx |-> idx], r)

\* carrier[idx] = resource (resource may be None)
SetItem(idx, resource) ==
  LET r == Carrier_setitem(St, "carrier", idx, resource)
  IN  /\ SetTree(r.t)
      /\ last' = Call("setitem", "carrier", resource, [idx |-> idx], r)

\* del carrier[idx]
DelItem(idx) ==
  LET r == Carrier_delitem(St, "carrier", idx)
  IN  /\ SetTree(r.t)
      /\ last' = Call("delitem", "carrier", None, [idx |-> idx], r)

\* carrier.unassign_child_resource(resource)
UnassignChildResource(resource) ==
  LET r == Carrier_unassign_child_resource(St, "carrier", resource)
  IN  /\ SetTree(r.t)
      /\ last' = Call("unassign_child_resource", "carrier", resource, <<>>, r)

\* carrier.assign_child_resource(resource, location)
AssignChildResource(resource) ==
  /\ Len(sites["carrier"]) < NSites + MaxExtraSites
  /\ LET r == Carrier_assign_child_resource(St, "carrier", resource, CoordZero)
     IN  /\ SetTree(r.t)
         /\ last' = Call("assign_child_resource", "carrier", resource, <<>>, r)

\* resource.unassign(), for a site or an occupant
CarrierUnassign(resource) ==
  LET r == Resource_unassign(St, resource)
  IN  /\ SetTree(r.t)
      /\ last' = Call("unassign", parent[resource], resource, <<>>, r)

NextCarrier ==
  \/ \E resource \in Occupants, spot \in Spots : AssignResourceToSite(resource, spot)
  \/ \E idx \in Spots : GetItem(idx)
  \/ \E idx \in Spots, resource \in Occupants \cup {None} : SetItem(idx, resource)
  \/ \E idx \in Spots : DelItem(idx)
  \/ \E resource \in CarrierObjs : UnassignChildResource(resource)
  \/ \E resource \in {"extra", "dup", "r1", SiteObj(0)} : AssignChildResource(resource)
  \/ \E resource \in CarrierObjs : CarrierUnassign(resource)

SpecCarrier == InitCarrier /\ [][NextCarrier]_vars

-----------------------------------------------------------------------------
(* Properties of the deck (checked under SpecDeck) *)

Max(a, b) == IF a >= b THEN a ELSE b

\* the spans [a, a + aw) and [b, b + bw) share an interval of positive length
PositiveOverlap1D(a, aw, b, bw) == Max(a, b) < Min(a + aw, b + bw)

\* the footprints of o1 at l1 and o2 at l2 overlap with positive area
PositiveOverlap(l1, o1, l2, o2) ==
  /\ PositiveOverlap1D(l1[1], SizeX(o1), l2[1], SizeX(o2))
  /\ PositiveOverlap1D(l1[2], SizeY(o1), l2[2], SizeY(o2))

DeckChildren == Range(children["deck"])

\* C1: no two children of the deck that have a known location have footprints
\* that overlap with positive area on both axes.
C1_NoOverlap ==
  \A o1, o2 \in DeckChildren :
    (o1 # o2 /\ location[o1] # NoLoc /\ location[o2] # NoLoc)
      => ~PositiveOverlap(location[o1], o1, location[o2], o2)

\* the candidate placement of resource at loc has no positive-area overlap with
\* any child of the deck that has a location
FreeOfOverlap(t, resource, loc) ==
  \A og \in Range(t.children["deck"]) :
    t.location[og] # NoLoc => ~PositiveOverlap(loc, resource, t.location[og], og)

\* the preconditions of C2: a free, uniquely named resource, placed at a valid
\* rails number where it fits or at a location, whose footprint has no
\* positive-area overlap with any placed sibling
DisjointPlacement(t, resource, loc, rails) ==
  /\ Given(loc, rails) \in {"location", "rails"}
  /\ t.parent[resource] = None
  /\ ({Name(x) : x \in {resource} \cup Descendants(t, resource)}
        \cap TreeNames(t, "deck")) = {}
  /\ ~rails_out_of_range(NumRails, rails)
  /\ ~does_not_fit(NumRails, resource, resolve_location(loc, rails), rails)
  /\ FreeOfOverlap(t, resource, resolve_location(loc, rails))

\* C2: a placement whose footprint has no positive-area overlap with any placed
\* sibling is never rejected for collision (location occupied).
C2_DisjointNotRejected ==
  [][\A resource \in DeckObjs, place \in PlaceArgs, replace \in BOOLEAN :
       (DisjointPlacement(St, resource, place[1], place[2])
          /\ DeckAssign(resource, place[1], place[2], replace))
        => last'.out # "ValueError:occupied"]_vars

\* C7: a call that gives both a location and a rails number fails with an error
\* and changes no state.
C7_BothIsAnError ==
  [][\A resource \in DeckObjs, place \in PlaceArgs, replace \in BOOLEAN :
       (Given(place[1], place[2]) = "both"
          /\ DeckAssign(resource, place[1], place[2], replace))
        => (last'.out # "ok" /\ St' = St)]_vars

\* the resources of the deck's tree that bear a name
Bearers(t, name) == {o \in Descendants(t, "deck") : Name(o) = name}

-----------------------------------------------------------------------------
(* Properties of the carrier *)

\* resource can be given to site: it is free and brings no name the tree has
Assignable(t, site, resource) ==
  /\ t.parent[resource] = None
  /\ {Name(x) : x \in {resource} \cup Descendants(t, resource)} \cap TreeNames(t, site) = {}
  /\ site \notin {resource} \cup Descendants(t, resource)

\* C3: assign_resource_to_site on an occupied site fails and changes nothing
\* (the occupant stays, the rejected resource keeps its parent); once the
\* occupant is unassigned the same assignment succeeds and the site holds
\* exactly the new resource.
C3_OccupiedSite ==
  \A resource \in Occupants, spot \in 0..(capacity(St, "carrier") - 1) :
    LET site == sites["carrier"][spot + 1]
        occupant == HolderResource(St, site)
        r == Carrier_assign_resource_to_site(St, "carrier", resource, spot)
        u == Resource_unassign(St, occupant)
        r2 == Carrier_assign_resource_to_site(u.t, "carrier", resource, spot)
    IN  occupant # None =>
          /\ r.out # "ok"
          /\ r.t = St
          /\ u.out = "ok"
          /\ Assignable(u.t, site, resource) =>
               /\ r2.out = "ok"
               /\ r2.t.children[site] = <<resource>>
               /\ r2.t.parent[resource] = site

\* an assignment to an occupied site was refused, and the occupant is in place
C3_Witness ==
  /\ last.op = "assign_resource_to_site"
  /\ last.out = "ValueError:spot-occupied"
  /\ HolderResource(St, sites["carrier"][last.arg.idx + 1]) \notin {None, last.resource}
  /\ parent[last.resource] \in {None} \cup SiteObjs

\* C4: the capacity is the number of sites the carrier was built with, and
\* carrier[i] is the site it was built with, in every state.
C4_CapacityFixed ==
  /\ capacity(St, "carrier") = NSites
  /\ \A i \in 0..(NSites - 1) : Carrier_getitem(St, "carrier", i).val = SiteObj(i)

\* C5: the children of the carrier are its sites, in index order, in every
\* state (a failing Carrier.assign_child_resource included).
C5_ChildrenAreSites == children["carrier"] = sites["carrier"]

IndexFailure(r) == r.out = "IndexError" /\ r.t = St

\* C6: every indexed operation given an index below 0 or at or above the
\* capacity fails with an index error and changes no state.
C6_IndexChecked ==
  \A idx \in Spots :
    (idx < 0 \/ idx >= capacity(St, "carrier")) =>
      /\ IndexFailure(Carrier_getitem(St, "carrier", idx))
      /\ IndexFailure(Carrier_delitem(St, "carrier", idx))
      /\ \A resource \in Occupants \cup {None} :
           IndexFailure(Carrier_setitem(St, "carrier", idx, resource))
      /\ \A resource \in Occupants :
           IndexFailure(Carrier_assign_resource_to_site(St, "carrier", resource, idx))

\* an occupied carrier was asked for an index it does not have
C6_Witness ==
  /\ last.op \in {"getitem", "setitem", "delitem", "assign_resource_to_site"}
  /\ last.out = "IndexError"
  /\ last.arg.idx >= capacity(St, "carrier")
  /\ \E i \in 1..Len(sites["carrier"]) : children[sites["carrier"][i]] # <<>>

-----------------------------------------------------------------------------
(* The plate holder: a holder "ph", two stacks, plates and an adapter *)

HolderU == {"ph"} \cup HolderObjs

InitHolder ==
  /\ InitTree(EmptyTree(HolderU))
  /\ last = NoCall

\* ph.assign_child_resource(resource)
HolderAssign(resource) ==
  /\ Len(did_unassign_cbs["ph"]) < MaxReg
  /\ LET r == PlateHolder_assign_child_resource(St, "ph", resource, NoLoc)
     IN  /\ SetTree(r.t)
         /\ last' = Call("assign_child_resource", "ph", resource, <<>>, r)

\* ph.get_default_child_location(resource)
GetDefaultChildLocation(resource) ==
  /\ Len(did_unassign_cbs["ph"]) < MaxReg
  /\ LET r == PlateHolder_get_default_child_location(St, "ph", resource)
     IN  /\ SetTree(r.t)
         /\ last' = Call("get_default_child_location", "ph", resource, <<>>, r)

\* stack.assign_child_resource(resource)
StackAssign(stack, resource) ==
  /\ Len(children[stack]) < MaxStack
  /\ LET r == ResourceStack_assign_child_resource(St, stack, resource)
     IN  /\ SetTree(r.t)
         /\ last' = Call("stack_assign", stack, resource, <<>>, r)

\* resource.unassign(), from the holder or from a stack
HolderUnassign(resource) ==
  LET r == Resource_unassign(St, resource)
  IN  /\ SetTree(r.t)
      /\ last' = Call("unassign", parent[resource], resource, <<>>, r)

NextHolder ==
  \/ \E resource \in HolderObjs : HolderAssign(resource)
  \/ \E resource \in HolderObjs : GetDefaultChildLocation(resource)
  \/ \E resource \in {"p7", "p3", "pbad", "adapter"} : StackAssign("stackZ", resource)
  \/ \E resource \in HolderObjs : HolderUnassign(resource)

SpecHolder == InitHolder /\ [][NextHolder]_vars

\* the placement PlateHolder gives to a plate: the base default location minus
\* min(|pedestal_size_z|, well clearance) along z
SunkLocation(h, plate) ==
  CoordAdd(ChildLocation(h),
           CoordNeg(Coordinate(0, 0,
             Min(Abs(PedestalSizeZ(h)), CHOOSE z \in well_dz_set(plate) : TRUE))))

\* C9: whenever a plate becomes the bottom member of a z stack that occupies
\* the plate holder, the stack is at the holder's default location for that
\* plate, whether the stack was empty or not when the holder took it.
C9_StackFollowsBottomPlate ==
  (/\ last.op = "stack_assign"
   /\ last.out = "ok"
   /\ Kind(last.resource) = "Plate"
   /\ parent[last.self] = "ph"
   /\ children[last.self][1] = last.resource)
    => location[last.self] = SunkLocation("ph", last.resource)

\* C10: once a stack has been unassigned from the plate holder, the holder's
\* stack-location callback is not registered on the stack: the step that
\* follows the unassignment leaves it unregistered unless the holder takes
\* the stack again.
C10_DeregisteredOnUnassign ==
  [][(/\ last.op = "unassign"
      /\ last.out = "ok"
      /\ last.self = "ph"
      /\ Kind(last.resource) = "ResourceStack")
       => (/\ "ph" \notin Range(did_assign_cbs[last.resource])
           /\ \/ "ph" \notin Range(did_assign_cbs'[last.resource])
              \/ parent'[last.resource] = "ph")]_vars

\* C11: a plate assigned to the plate holder without a location is placed at
\* the base default child location with min(|pedestal_size_z|, well clearance)
\* subtracted from z; x and y are those of the base default location.
C11_PlateSinks ==
  \A plate \in {"p7", "p3"} :
    LET r == PlateHolder_assign_child_resource(St, "ph", plate, NoLoc)
        clearance == IF plate = "p7" THEN 7000 ELSE 3000
        depth == IF 5000 <= clearance THEN 5000 ELSE clearance
    IN  r.out = "ok" =>
          /\ r.t.parent[plate] = "ph"
          /\ r.t.location[plate][1] = ChildLocation("ph")[1]
          /\ r.t.location[plate][2] = ChildLocation("ph")[2]
          /\ r.t.location[plate][3] = ChildLocation("ph")[3] - depth

\* the plate with clearance 7 sits on the holder, sunk by the pedestal's 5
C11_Witness ==
  /\ last.op = "assign_child_resource"
  /\ last.out = "ok"
  /\ last.resource = "p7"
  /\ children["ph"] = <<"p7">>
  /\ location["p7"] = Coordinate(0, 0, 1000 - 5000)

\* what the plate holder accepts: a plate, a plate adapter, or a z stack all of
\* whose members are plates
Acceptable(t, resource) ==
  \/ Kind(resource) \in {"Plate", "PlateAdapter"}
  \/ /\ Kind(resource) = "ResourceStack"
     /\ Direction(resource) = "z"
     /\ \A c \in Range(t.children[resource]) : Kind(c) = "Plate"

BottomPlate(t, resource) ==
  IF Kind(resource) = "Plate" THEN resource
  ELSE IF Kind(resource) = "ResourceStack" /\ t.children[resource] # <<>>
    THEN t.children[resource][1]
  ELSE None

-----------------------------------------------------------------------------
(* Further properties of the deck (SpecDeck) and the carrier (SpecCarrier) *)

\* the rails numbers a caller gives: 0 .. num_rails + 1
RailsNumbers == 0..(NumRails + 1)

\* C14: a call with a rails number outside 1..num_rails fails with the rails
\* error and changes no state, whatever location and replace are (a resource
\* of the same name stays where it is); a rails number inside 1..num_rails is
\* never refused with the rails error.
C14_RailsRange ==
  \A resource \in DeckObjs, n \in RailsNumbers, loc \in DeckLocs \cup {NoLoc},
     replace \in BOOLEAN :
    LET r == HamiltonDeck_assign_child_resource(St, "deck", resource, loc, <<n>>, replace)
    IN  IF n < 1 \/ n > NumRails
          THEN r.out = "ValueError:rails" /\ r.t = St
          ELSE r.out # "ValueError:rails"

\* rails number 0 or num_rails + 1 was refused for a name the deck has, with
\* replace=True, and the bearer is still on the deck
C14_Witness ==
  /\ last.op = "deck.assign_child_resource"
  /\ last.out = "ValueError:rails"
  /\ last.arg.replace
  /\ last.arg.bearer # None
  /\ parent[last.arg.bearer] # None

\* the x of the right edge of resource placed at rails number n
RightEdge(resource, n) == 100000 + (n - 1) * 22500 + SizeX(resource)

\* the x the right edge may not pass: rails_to_location(num_rails + 1).x
RightBound == 100000 + NumRails * 22500

\* the name check lets the call through
NamePasses(t, resource, replace) ==
  ~has_resource(t, "deck", Name(resource)) \/ replace

\* C15: a resource placed by rails is refused for its width exactly when its
\* right edge is greater than rails_to_location(num_rails + 1).x (equal is
\* let through); a call that gives a location and no rails is never refused
\* for its width.
C15_FitsAtRails ==
  \A resource \in DeckObjs, replace \in BOOLEAN :
    /\ \A n \in 1..NumRails :
         LET r == HamiltonDeck_assign_child_resource(St, "deck", resource, NoLoc, <<n>>, replace)
         IN  /\ r.out = "ValueError:fit" => RightEdge(resource, n) > RightBound
             /\ (RightEdge(resource, n) > RightBound /\ NamePasses(St, resource, replace))
                  => r.out = "ValueError:fit"
    /\ \A loc \in DeckLocs \cup {NoLoc, Coordinate(140000, 63000, 100000)} :
         HamiltonDeck_assign_child_resource(St, "deck", resource, loc, NoRails, replace).out
           # "ValueError:fit"

\* a resource whose right edge is exactly at the bound was placed by rails
C15_Witness ==
  /\ last.op = "deck.assign_child_resource"
  /\ last.out = "ok"
  /\ parent[last.resource] = "deck"
  /\ location[last.resource] # NoLoc
  /\ location[last.resource][1] + SizeX(last.resource) = RightBound
  /\ SizeX(last.resource) > 0

\* the sites of the carrier other than the one at index idx, with their occupants
OtherSites(t, idx) ==
  [i \in (0..(capacity(t, "carrier") - 1)) \ {idx} |->
     <<t.sites["carrier"][i + 1], t.children[t.sites["carrier"][i + 1]]>>]

\* the effect C16 gives to carrier[idx] = None and del carrier[idx]
ClearsSite(t, idx, r) ==
  LET site == t.sites["carrier"][idx + 1]
      occupant == HolderResource(t, site)
  IN  /\ r.out = "ok"
      /\ r.t.children[site] = <<>>
      /\ occupant # None => r.t.parent[occupant] = None
      /\ occupant = None => r.t = t
      /\ OtherSites(r.t, idx) = OtherSites(t, idx)

\* C16: for a valid index, carrier[idx] = None and del carrier[idx] take the
\* occupant off site idx when there is one and do nothing, without error, when
\* there is none; the other sites and their occupants stay; carrier[idx] = r
\* is assign_resource_to_site(r, idx).
C16_SetAndDelete ==
  \A idx \in 0..(capacity(St, "carrier") - 1) :
    /\ ClearsSite(St, idx, Carrier_setitem(St, "carrier", idx, None))
    /\ ClearsSite(St, idx, Carrier_delitem(St, "carrier", idx))
    /\ \A resource \in Occupants :
         Carrier_setitem(St, "carrier", idx, resource)
           = Carrier_assign_resource_to_site(St, "carrier", resource, idx)

\* resource sits on a holder that is a child of the carrier
OnCarrier(t, resource) ==
  /\ t.parent[resource] # None
  /\ IsResourceHolder(t.parent[resource])
  /\ t.parent[t.parent[resource]] = "carrier"

\* C17: carrier.unassign_child_resource(resource) fails and changes no state
\* unless the parent of resource is a holder whose parent is the carrier; when
\* it is, resource loses its parent and its site is empty.  A site is never
\* detached by it.
C17_UnassignFromCarrier ==
  \A resource \in CarrierObjs :
    LET r == Carrier_unassign_child_resource(St, "carrier", resource)
    IN  IF OnCarrier(St, resource)
          THEN /\ r.out = "ok"
               /\ r.t.parent[resource] = None
               /\ r.t.children[parent[resource]] = <<>>
          ELSE /\ r.out # "ok"
               /\ r.t = St

\* the carrier was asked to unassign one of its sites and refused
C17_Witness ==
  /\ last.op = "unassign_child_resource"
  /\ last.out = "ValueError:not-on-carrier"
  /\ last.resource \in SiteObjs
  /\ parent[last.resource] = "carrier"

-----------------------------------------------------------------------------
(* HamiltonDeck.load_from_lay_file (hamilton_decks.py 150-239) *)

LayU == {"deck"} \cup LayObjs

\* STARLET_SIZE_X, micrometres
STARLET_SIZE_X == 1360000

\* HamiltonSTARDeck.__init__ without no_trash: the two trash areas are assigned
HamiltonSTARDeck_init(t, self, size_x) ==
  LET t1 == HamiltonDeck_assign_child_resource(
              t, self, "trash", Coordinate(size_x - 560000, 190600, 137100),
              NoRails, FALSE).t
  IN  HamiltonDeck_assign_child_resource(
        t1, self, "trash_core96", Coordinate(0 - 232100, 110300, 189000),
        NoRails, FALSE).t

\* klass(name=name) for a carrier class: what Carrier.__init__ leaves, the
\* sites of the class assigned in order (lines 45-49, 66-69)
LayCarrierInit(t, c) ==
  LET ss == [i \in 1..LayCapacity(c) |-> LaySite(c, i - 1)]
      idx(o) == CHOOSE i \in 0..(LayCapacity(c) - 1) : LaySite(c, i) = o
  IN  [t EXCEPT !.sites[c] = ss,
                !.children[c] = ss,
                !.parent = [o \in DOMAIN @ |-> IF o \in LaySites(c) THEN c ELSE @[o]],
                !.location = [o \in DOMAIN @ |->
                                IF o \in LaySites(c) THEN SiteLocation(idx(o)) ELSE @[o]]]

\* the class names found in pylabrobot.resources
resource_classes == {"C6", "C2", "Res"}

\* TForm.3.X / TForm.3.Y / ZTrans of a record placed on the deck
LayLoc(id) ==
  CASE id = "c6" -> Coordinate(100000, 63000, 100000)
    [] id = "c2" -> Coordinate(325000, 63000, 100000)
    [] OTHER -> Coordinate(550000, 63000, 100000)

ContainerRecord(id, class) ==
  [id |-> id, class |-> class, template |-> "default", site |-> 0, loc |-> LayLoc(id)]

ChildRecord(id, class, container, site) ==
  [id |-> id, class |-> class, template |-> container, site |-> site, loc |-> NoLoc]

\* the Labware records a layout file can hold: two carriers of known classes
\* (6 and 2 sites), a carrier of an unknown class, labware on sites of each,
\* and labware of an unknown class
LayRecords ==
  {ContainerRecord("c6", "C6"), ContainerRecord("c2", "C2"),
   ContainerRecord("cu", "Unknown"),
   ChildRecord("p", "Res", "c6", 0), ChildRecord("p", "Res", "c6", 5),
   ChildRecord("q", "Res", "c2", 0), ChildRecord("q", "Res", "c2", 1),
   ChildRecord("w", "Res", "cu", 0), ChildRecord("v", "Unknown", "c6", 1)}

\* the layouts: up to MaxRecords records, each Labware id once
LayStreams ==
  {s \in UNION {[1..n -> LayRecords] : n \in 1..MaxRecords} :
     \A a, b \in 1..Len(s) : a # b => s[a].id # s[b].id}

\* the loops over the children and over the containers in the other order
Position_children_first(l) ==
  IF l.error # None THEN "raised"
  ELSE IF l.i <= Len(l.records) THEN "read"
  ELSE IF l.j < Len(l.children) THEN "children"
  ELSE IF l.k < Len(l.containers) THEN "containers"
  ELSE "done"

\* where load_from_lay_file is: in the loop over the records (191-227), in the
\* loop over the containers (230-231), in the loop over the children (234-237),
\* at its return, or left by an exception
Position(l) ==
  IF l.error # None THEN "raised"
  ELSE IF l.i <= Len(l.records) THEN "read"
  ELSE IF l.k < Len(l.containers) THEN "containers"
  ELSE IF l.j < Len(l.children) THEN "children"
  ELSE "done"

\* one pass of the loop of lines 191-227, for record l.i
lay_read(t, l) ==
  LET rec == l.records[l.i]
  IN  IF rec.class \notin resource_classes
        THEN [t |-> t, l |-> [l EXCEPT !.i = @ + 1, !.warnings = @ + 1]]
      ELSE
        LET t1 == IF rec.id \in LayCarriers THEN LayCarrierInit(t, rec.id) ELSE t
        IN  IF rec.template = "default"
              THEN [t |-> [t1 EXCEPT !.location[rec.id] = rec.loc],
                    l |-> [l EXCEPT !.i = @ + 1, !.containers = Append(@, rec.id)]]
              ELSE [t |-> t1,
                    l |-> [l EXCEPT !.i = @ + 1,
                                    !.children = Append(@, [container |-> rec.template,
                                                            site |-> rec.site,
                                                            resource |-> rec.id])]]

\* the exception that leaves the method, if the call r raised
Raised(r) == IF r.out = "ok" THEN None ELSE r.out

\* the locals and the tree after deck.assign_child_resource has answered r
after_assign_container(l, r) ==
  [t |-> r.t, l |-> [l EXCEPT !.k = @ + 1, !.error = Raised(r)]]

\* one pass of the loop of lines 230-231
lay_assign_container(t, l, cont) ==
  after_assign_container(l,
    HamiltonDeck_assign_child_resource(t, "deck", cont, t.location[cont], NoRails, FALSE))

\* the locals and the tree after cont[5 - site] = resource has answered r
after_assign_child(l, r) ==
  [t |-> r.t, l |-> [l EXCEPT !.j = @ + 1, !.error = Raised(r)]]

\* one pass of the loop of lines 234-237
lay_assign_child(t, l, child) ==
  IF child.container \notin Range(l.containers)
    THEN after_assign_child(l, Raise("KeyError", t))
    ELSE after_assign_child(l,
           Carrier_setitem(t, child.container, 5 - child.site, child.resource))

\* the tree and the locals after a step that gives r
LayBecomes(r) == TreeBecomes(r.t) /\ lay' = r.l /\ UNCHANGED <<pump, calc, fan, trash96>>

InitLay ==
  /\ TreeIs(HamiltonSTARDeck_init(EmptyTree(LayU), "deck", STARLET_SIZE_X))
  /\ last = NoCall
  /\ \E s \in LayStreams : lay = [NoLay EXCEPT !.records = s]
  /\ pump = NoPump
  /\ calc = NoCalc
  /\ fan = NoFan
  /\ trash96 = "trash_core96"

LayRead ==
  /\ Position(lay) = "read"
  /\ LayBecomes(lay_read(St, lay))
  /\ UNCHANGED last

LayAssignContainer ==
  /\ Position(lay) = "containers"
  /\ LayBecomes(lay_assign_container(St, lay, lay.containers[lay.k + 1]))
  /\ UNCHANGED last

LayAssignChild ==
  /\ Position(lay) = "children"
  /\ LayBecomes(lay_assign_child(St, lay, lay.children[lay.j + 1]))
  /\ UNCHANGED last

NextLay == LayRead \/ LayAssignContainer \/ LayAssignChild

SpecLay == InitLay /\ [][NextLay]_vars

\* the child records the third loop has handled, the one that raised included
Handled == {lay.children[n] : n \in 1..lay.j}

\* C18: a child record with external site id s is on the site of internal
\* index (capacity - 1) - s of its container, whatever the capacity.
C18_SiteRemap ==
  \A child \in Handled :
    (/\ child.container \in Range(lay.containers)
     /\ child.site \in 0..(LayCapacity(child.container) - 1))
      => parent[child.resource]
           = LaySite(child.container, (LayCapacity(child.container) - 1) - child.site)

\* C19: a record of an unknown class is skipped and never aborts the import,
\* also when it is a container that child records of known classes name: the
\* import does not end with an exception for a record that was skipped.
C19_UnknownSkipped ==
  \A n \in 1..Len(lay.records) :
    lay.records[n].class \notin resource_classes =>
      ~(/\ lay.error = "KeyError"
        /\ lay.children[lay.j].container = lay.records[n].id)

\* C20: when the importer resolves child records every container is a child of
\* the deck at its location, whatever the order of the records; a child record
\* resolved without error is on a site of its container.
C20_ContainersFirst ==
  (Position(lay) = "children" \/ lay.j > 0) =>
    /\ lay.i > Len(lay.records)
    /\ \A c \in Range(lay.containers) : parent[c] = "deck" /\ location[c] = LayLoc(c)
    /\ \A n \in 1..lay.j :
         (n < lay.j \/ lay.error = None) =>
           parent[lay.children[n].resource] \in LaySites(lay.children[n].container)

\* the import is over for a layout that names the labware before its carrier,
\* and the labware is on the carrier
C20_Witness ==
  /\ Position(lay) = "done"
  /\ Len(lay.records) >= 2
  /\ lay.records[1].id = "p"
  /\ lay.records[2].id = "c6"
  /\ parent["p"] \in LaySites("c6")
  /\ parent["c6"] = "deck"

-----------------------------------------------------------------------------
(* Failed and order-dependent placements on the deck (hamilton_decks.py 104-148) *)

\* C26: a call of HamiltonDeck.assign_child_resource that fails, for whatever
\* reason and whatever replace is, leaves the tree as it was before the call.
C26_FailureChangesNothing ==
  \A resource \in DeckObjs, place \in PlaceArgs, replace \in BOOLEAN :
    LET r == HamiltonDeck_assign_child_resource(St, "deck", resource,
                                                place[1], place[2], replace)
    IN  r.out # "ok" => r.t = St

\* an empty deck on which o alone has been placed at location l
PlacedAlone(o, l) ==
  HamiltonDeck_assign_child_resource(EmptyTree({"deck"} \cup DeckObjs), "deck",
                                     o, l, NoRails, FALSE).t

\* placing o2 at l2 on a deck that holds o1 at l1 is refused as occupied
RejectedAfter(o1, l1, o2, l2) ==
  HamiltonDeck_assign_child_resource(PlacedAlone(o1, l1), "deck",
                                     o2, l2, NoRails, FALSE).out
    = "ValueError:occupied"

\* C27: the collision test is symmetric: for a child o1 of the deck at its
\* location and any other resource o2 at a location l2, o2 at l2 is refused on
\* a deck that holds o1 exactly when o1 is refused on a deck that holds o2 at l2.
C27_CollisionSymmetric ==
  \A o1 \in DeckChildren, o2 \in DeckObjs, l2 \in DeckLocs :
    (o1 # o2 /\ location[o1] # NoLoc)
      => (RejectedAfter(o1, location[o1], o2, l2)
            <=> RejectedAfter(o2, l2, o1, location[o1]))

\* C28: a call with a concrete location (given or from rails) never fails
\* because a child of the deck has no location: such a child is passed over by
\* the collision check.
C28_UnlocatedIgnored ==
  \A resource \in DeckObjs, place \in PlaceArgs, replace \in BOOLEAN :
    Given(place[1], place[2]) \in {"location", "rails"} =>
      HamiltonDeck_assign_child_resource(St, "deck", resource,
                                         place[1], place[2], replace).out
        # "AttributeError"

-----------------------------------------------------------------------------
(* The occupant of a plate holder over time (carrier.py 170-238) *)

\* C29: whatever is assigned to or unassigned from a stack after a plate
\* holder has accepted it, the occupant of the holder is a plate, a plate
\* adapter or a z stack all of whose members are plates.
C29_OccupantStaysAcceptable ==
  \A o \in Range(children["ph"]) : Acceptable(St, o)

\* C30: PlateHolder.get_default_child_location is a query: for every resource
\* the call leaves the callbacks registered on the resource and on the holder,
\* and the rest of the tree, as they were.
C30_DefaultLocationIsPure ==
  \A resource \in HolderObjs :
    PlateHolder_get_default_child_location(St, "ph", resource).t = St

-----------------------------------------------------------------------------
(* Pump (pumps/pump.py)                                                    *)
(*                                                                         *)
(* The pump is the record [calibration, log]: log lists, in order, the     *)
(* calls the backend received and the sleeps the event loop was asked for. *)
(* The backend methods are plain calls (pump.py 42, 54, 95 do not await    *)
(* them). A duration or a number of revolutions is the fraction <<n, d>>.  *)

\* the numbers a caller passes, as fractions
Frac(n, d) == <<n, d>>
FracNegative(q) == q[1] < 0

\* volume / self.calibration
TrueDiv(volume, calibration) == Frac(volume, calibration.value)

\* an entry of the log
Cmd(cmd, arg) == [cmd |-> cmd, arg |-> arg]

\* a pump operation's result: what it raised, the pump it leaves, its value
PumpOk(p) == [out |-> "ok", p |-> p, val |-> None]
PumpRaise(e, p) == [out |-> e, p |-> p, val |-> None]

\* self.backend.run_revolutions(num_revolutions=...)
Backend_run_revolutions(p, num_revolutions) ==
  [p EXCEPT !.log = Append(@, Cmd("run_revolutions", num_revolutions))]

\* self.backend.run_continuously(speed=...)
Backend_run_continuously(p, speed) ==
  [p EXCEPT !.log = Append(@, Cmd("run_continuously", speed))]

\* self.backend.halt()
Backend_halt(p) == [p EXCEPT !.log = Append(@, Cmd("halt", 0))]

\* asyncio.sleep(duration)
asyncio_sleep(p, duration) == [p EXCEPT !.log = Append(@, Cmd("sleep", duration))]

\* Pump.run_revolutions: a plain method, returns None
Pump_run_revolutions(p, num_revolutions) ==
  PumpOk(Backend_run_revolutions(p, num_revolutions))

\* Pump.run_continuously: a plain method, returns None
Pump_run_continuously(p, speed) == PumpOk(Backend_run_continuously(p, speed))

\* `await x`: x must be awaitable, and None is not
Awaitable(x) == x # None

\* Pump.run_for_duration
Pump_run_for_duration(p, speed, duration) ==
  IF FracNegative(duration) THEN PumpRaise("ValueError", p)
  ELSE
    LET r1 == Pump_run_continuously(p, speed)
    IN  IF ~Awaitable(r1.val) THEN PumpRaise("TypeError:await", r1.p)
        ELSE
          LET p2 == asyncio_sleep(r1.p, duration)
              r3 == Pump_run_continuously(p2, 0)
          IN  IF ~Awaitable(r3.val) THEN PumpRaise("TypeError:await", r3.p)
              ELSE PumpOk(r3.p)

\* Pump.pump_volume
Pump_pump_volume(p, speed, volume) ==
  IF p.calibration = NoCalibration THEN PumpRaise("TypeError:not-calibrated", p)
  ELSE IF p.calibration.calibration_mode = "duration"
    THEN Pump_run_for_duration(p, speed, TrueDiv(volume, p.calibration))
  ELSE IF p.calibration.calibration_mode = "revolutions"
    THEN Pump_run_revolutions(p, TrueDiv(volume, p.calibration))
  ELSE PumpRaise("ValueError:mode", p)

\* Pump.halt
Pump_halt(p) == PumpOk(Backend_halt(p))

(* --- the pump's state machine --- *)

\* the calibrations a pump is constructed with
Calibrations ==
  {NoCalibration} \cup {[calibration_mode |-> m, value |-> 2] :
                 m \in {"duration", "revolutions", "weight"}}

Speeds == {0, 1, 2}
Durations == {Frac(0 - 1, 1), Frac(0, 1), Frac(3, 1)}
Volumes == {0 - 2, 0, 5}

PumpBecomes(r, op, arg) ==
  /\ pump' = r.p
  /\ last' = [op |-> op, self |-> "pump", resource |-> None, arg |-> arg,
              out |-> r.out, val |-> r.val]
  /\ UNCHANGED <<parent, children, location, sites, did_assign_cbs,
                 did_unassign_cbs, lay, calc, fan, trash96>>

InitPump ==
  /\ TreeIs(EmptyTree({"pump"}))
  /\ last = NoCall
  /\ lay = NoLay
  /\ calc = NoCalc
  /\ fan = NoFan
  /\ trash96 = Unset
  /\ \E c \in Calibrations : pump = [NoPump EXCEPT !.calibration = c]

RunRevolutions(n) ==
  /\ Len(pump.log) < MaxLog
  /\ PumpBecomes(Pump_run_revolutions(pump, n), "run_revolutions", <<n>>)

RunContinuously(speed) ==
  /\ Len(pump.log) < MaxLog
  /\ PumpBecomes(Pump_run_continuously(pump, speed), "run_continuously", <<speed>>)

RunForDuration(speed, duration) ==
  /\ Len(pump.log) < MaxLog
  /\ PumpBecomes(Pump_run_for_duration(pump, speed, duration),
                 "run_for_duration", <<speed, duration>>)

PumpVolume(speed, volume) ==
  /\ Len(pump.log) < MaxLog
  /\ PumpBecomes(Pump_pump_volume(pump, speed, volume), "pump_volume", <<speed, volume>>)

Halt ==
  /\ Len(pump.log) < MaxLog
  /\ PumpBecomes(Pump_halt(pump), "halt", <<>>)

NextPump ==
  \/ \E n \in {Frac(1, 1)} : RunRevolutions(n)
  \/ \E speed \in Speeds : RunContinuously(speed)
  \/ \E speed \in Speeds, duration \in Durations : RunForDuration(speed, duration)
  \/ \E speed \in Speeds, volume \in Volumes : PumpVolume(speed, volume)
  \/ Halt

SpecPump == InitPump /\ [][NextPump]_vars

\* what the call that gave r added to the log of pump p
Sent(p, r) == SubSeq(r.p.log, Len(p.log) + 1, Len(r.p.log))

\* C24: run_for_duration with a negative duration raises and sends nothing;
\* otherwise it sends run_continuously(speed), sleeps the duration and sends
\* run_continuously(0), in that order, and returns: no call that has sent a
\* command ends without the speed-0 command as the last one sent.
C24_RunThenStop ==
  \A speed \in Speeds, duration \in Durations :
    LET r == Pump_run_for_duration(pump, speed, duration)
    IN  IF FracNegative(duration)
          THEN r.out # "ok" /\ Sent(pump, r) = <<>>
          ELSE /\ r.out = "ok"
               /\ Sent(pump, r) = <<Cmd("run_continuously", speed),
                                    Cmd("sleep", duration),
                                    Cmd("run_continuously", 0)>>

\* C25: pump_volume raises and sends nothing without a calibration or with a
\* calibration mode other than "duration" and "revolutions"; in "duration"
\* mode it runs at the speed, sleeps volume / calibration and stops; in
\* "revolutions" mode it sends the one command run_revolutions(volume /
\* calibration).
C25_PumpVolume ==
  \A speed \in Speeds, volume \in Volumes :
    LET r == Pump_pump_volume(pump, speed, volume)
        c == pump.calibration
    IN  IF c = NoCalibration \/ c.calibration_mode \notin {"duration", "revolutions"}
          THEN r.out # "ok" /\ Sent(pump, r) = <<>>
        ELSE IF c.calibration_mode = "revolutions"
          THEN Sent(pump, r) = <<Cmd("run_revolutions", Frac(volume, c.value))>>
        ELSE volume >= 0 =>
               Sent(pump, r) = <<Cmd("run_continuously", speed),
                                 Cmd("sleep", Frac(volume, c.value)),
                                 Cmd("run_continuously", 0)>>

-----------------------------------------------------------------------------
(* Floating point (resources/height_functions.py computes in Python floats) *)
(*                                                                         *)
(* A float is the record [m, e] of value m * 2^e, with m = 0 or            *)
(* 2^(Precision-1) <= m < 2^Precision. Every operation gives the exact     *)
(* result rounded to the nearest float, ties to the even mantissa, as IEEE *)
(* 754 does. CPython's float has 53 significant bits; Precision is smaller *)
(* so that every intermediate product is an integer TLC can hold. What     *)
(* depends on the spacing of the floats (ulp(x) = x * 2^-Precision, about) *)
(* therefore shows at magnitudes 2^(53 - Precision) times smaller than     *)
(* with doubles. The solvers only meet values >= 0, and so does the model; *)
(* the exponent is unbounded (no overflow, no subnormals).                 *)

\* significant bits of a float
Precision == 14

RECURSIVE BitLen(_)
\* int.bit_length()
BitLen(n) == IF n = 0 THEN 0 ELSE 1 + BitLen(n \div 2)

FZero == [m |-> 0, e |-> 0]

\* the float nearest to n * 2^e, for an integer n >= 0
Norm(n, e) ==
  IF n = 0 THEN FZero
  ELSE LET b == BitLen(n)
       IN  IF b <= Precision
             THEN [m |-> n * 2^(Precision - b), e |-> e - (Precision - b)]
           ELSE LET k == b - Precision
                    q == n \div 2^k
                    rem == n % 2^k
                    half == 2^(k - 1)
                    up == rem > half \/ (rem = half /\ q % 2 = 1)
                IN  IF up /\ q + 1 = 2^Precision
                      THEN [m |-> 2^(Precision - 1), e |-> e + k + 1]
                    ELSE [m |-> IF up THEN q + 1 ELSE q, e |-> e + k]

\* float(n) of an int n >= 0
FromInt(n) == Norm(n, 0)

\* a < b, a <= b
FLess(a, b) ==
  IF b.m = 0 THEN FALSE
  ELSE IF a.m = 0 THEN TRUE
  ELSE a.e < b.e \/ (a.e = b.e /\ a.m < b.m)

FLeq(a, b) == a = b \/ FLess(a, b)

\* a * b
FMul(a, b) == Norm(a.m * b.m, a.e + b.e)

\* the sum of hi and lo, hi.e >= lo.e
FAddOrdered(hi, lo) ==
  IF hi.e - lo.e > Precision + 1 THEN hi
  ELSE Norm(hi.m * 2^(hi.e - lo.e) + lo.m, lo.e)

\* a + b
FAdd(a, b) ==
  IF a.m = 0 THEN b
  ELSE IF b.m = 0 THEN a
  ELSE IF a.e >= b.e THEN FAddOrdered(a, b) ELSE FAddOrdered(b, a)

\* a - b, for a >= b
FSub(a, b) ==
  IF b.m = 0 THEN a
  ELSE IF a.e - b.e > Precision + 1 THEN a
  ELSE Norm(a.m * 2^(a.e - b.e) - b.m, b.e)

\* a / b, for b # 0: the quotient to Precision + 2 bits and a sticky bit
FDiv(a, b) ==
  IF a.m = 0 THEN FZero
  ELSE LET n == a.m * 2^(Precision + 2)
       IN  Norm(2 * (n \div b.m) + (IF n % b.m = 0 THEN 0 ELSE 1),
                a.e - b.e - (Precision + 2) - 1)

\* the float literals of the source
F1 == FromInt(1)
F2 == FromInt(2)
F3 == FromInt(3)

\* math.pi
math_pi == Norm(3294199, 0 - 20)

RECURSIVE CbrtSearch(_, _, _, _)
\* the largest mantissa m in lo..hi with ([m, e])^3 <= x (lo satisfies it)
CbrtSearch(x, e, lo, hi) ==
  IF lo = hi THEN lo
  ELSE LET mid == (lo + hi + 1) \div 2
           y == [m |-> mid, e |-> e]
       IN  IF FLeq(FMul(FMul(y, y), y), x)
             THEN CbrtSearch(x, e, mid, hi)
             ELSE CbrtSearch(x, e, lo, mid - 1)

\* x ** (1/3): the largest float whose cube, in floats, is at most x
FCbrt(x) ==
  IF x.m = 0 THEN FZero
  ELSE LET t == (x.e + Precision - 1) \div 3
           e == t - (Precision - 1)
       IN  [m |-> CbrtSearch(x, e, 2^(Precision - 1), 2^Precision - 1), e |-> e]

-----------------------------------------------------------------------------
(* Height of a liquid in a container (resources/height_functions.py)       *)

\* a call returns a float, raises ValueError, or never returns
Returns(v) == [out |-> "ok", val |-> v]
RaisesValueError == [out |-> "ValueError", val |-> FZero]
NeverReturns == [out |-> "nonterminating", val |-> FZero]

\* 1/3 and 2/3 as the source writes them
OneThird == FDiv(F1, F3)
TwoThirds == FDiv(F2, F3)

\* tolerance = 1e-6
tolerance == Norm(1099512, 0 - 40)

\* (1/3) * math.pi * h**2 * (3*r - h), for h <= r
volume_of_spherical_cap(r, h) ==
  FMul(FMul(FMul(OneThird, math_pi), FMul(h, h)), FSub(FMul(F3, r), h))

\* max_volume = volume_of_spherical_cap(r)
max_volume(r) == volume_of_spherical_cap(r, r)

\* high - low > tolerance
LoopCondition(low, high) == FLess(tolerance, FSub(high, low))

\* mid = (low + high) / 2
Mid(low, high) == FDiv(FAdd(low, high), F2)

\* the pass with the two branches exchanged
Iterate_exchanged(r, liquid_volume, b) ==
  LET mid == Mid(b.low, b.high)
  IN  IF FLess(volume_of_spherical_cap(r, mid), liquid_volume)
        THEN [low |-> b.low, high |-> mid]
        ELSE [low |-> mid, high |-> b.high]

\* one pass through the body of the while loop
Iterate(r, liquid_volume, b) ==
  LET mid == Mid(b.low, b.high)
  IN  IF FLess(volume_of_spherical_cap(r, mid), liquid_volume)
        THEN [low |-> mid, high |-> b.high]
        ELSE [low |-> b.low, high |-> mid]

RECURSIVE BinarySearch(_, _, _)
\* the while loop from the bracket b on: a pass that leaves the bracket as it
\* was is followed by the same pass for ever
BinarySearch(r, liquid_volume, b) ==
  IF ~LoopCondition(b.low, b.high) THEN Returns(Mid(b.low, b.high))
  ELSE LET nb == Iterate(r, liquid_volume, b)
       IN  IF nb = b THEN NeverReturns
           ELSE BinarySearch(r, liquid_volume, nb)

height_of_volume_in_spherical_cap(r, liquid_volume) ==
  IF FLess(max_volume(r), liquid_volume) THEN RaisesValueError
  ELSE BinarySearch(r, liquid_volume, [low |-> FZero, high |-> r])

calculate_liquid_height_in_container_2segments_square_vbottom(x, y, h_pyramid, h_cube, liquid_volume) ==
  LET base_area == FMul(x, y)
      full_pyramid_volume == FMul(FMul(OneThird, base_area), h_pyramid)
  IN  IF FLeq(liquid_volume, full_pyramid_volume)
        THEN Returns(FMul(FCbrt(FDiv(liquid_volume, full_pyramid_volume)), h_pyramid))
      ELSE LET cube_liquid_volume == FSub(liquid_volume, full_pyramid_volume)
               cube_liquid_height == FDiv(cube_liquid_volume, base_area)
               liquid_height == FAdd(h_pyramid, cube_liquid_height)
           IN  IF FLess(FAdd(h_pyramid, h_cube), liquid_height)
                 THEN RaisesValueError
                 ELSE Returns(liquid_height)

calculate_liquid_height_in_container_2segments_square_ubottom(x, h_cuboid, liquid_volume) ==
  LET r == FDiv(x, F2)
      full_hemisphere_volume == FMul(FMul(TwoThirds, math_pi), FMul(FMul(r, r), r))
  IN  IF FLeq(liquid_volume, full_hemisphere_volume)
        THEN height_of_volume_in_spherical_cap(r, liquid_volume)
      ELSE LET cuboid_liquid_volume == FSub(liquid_volume, full_hemisphere_volume)
               cuboid_liquid_height == FDiv(cuboid_liquid_volume, FMul(x, x))
               liquid_height == FAdd(r, cuboid_liquid_height)
           IN  IF FLess(FAdd(h_cuboid, r), liquid_height)
                 THEN RaisesValueError
                 ELSE Returns(liquid_height)

calculate_liquid_height_in_container_2segments_round_vbottom(d, h_cone, h_cylinder, liquid_volume) ==
  LET radius == FDiv(d, F2)
      base_area == FMul(math_pi, FMul(radius, radius))
      full_cone_volume == FMul(FMul(OneThird, base_area), h_cone)
      total_container_volume == FAdd(full_cone_volume, FMul(base_area, h_cylinder))
  IN  IF FLess(total_container_volume, liquid_volume) THEN RaisesValueError
      ELSE IF FLeq(liquid_volume, full_cone_volume)
        THEN Returns(FMul(FCbrt(FDiv(liquid_volume, full_cone_volume)), h_cone))
      ELSE LET cylinder_liquid_volume == FSub(liquid_volume, full_cone_volume)
               cylinder_liquid_height == FDiv(cylinder_liquid_volume, base_area)
           IN  Returns(FAdd(h_cone, cylinder_liquid_height))

calculate_liquid_height_in_container_2segments_round_ubottom(d, h_cylinder, liquid_volume) ==
  LET radius == FDiv(d, F2)
      hemisphere_volume == FMul(FMul(TwoThirds, math_pi), FMul(FMul(radius, radius), radius))
      base_area == FMul(math_pi, FMul(radius, radius))
      cylinder_volume == FMul(base_area, h_cylinder)
      total_container_volume == FAdd(hemisphere_volume, cylinder_volume)
  IN  IF FLess(total_container_volume, liquid_volume) THEN RaisesValueError
      ELSE IF FLeq(liquid_volume, hemisphere_volume)
        THEN height_of_volume_in_spherical_cap(radius, liquid_volume)
      ELSE LET cylinder_liquid_volume == FSub(liquid_volume, hemisphere_volume)
               cylinder_liquid_height == FDiv(cylinder_liquid_volume, base_area)
           IN  Returns(FAdd(radius, cylinder_liquid_height))

calculate_liquid_height_container_1segment_round_fbottom(d, h_cylinder, liquid_volume) ==
  LET r == FDiv(d, F2)
      area == FMul(math_pi, FMul(r, r))
      cylinder_max_volume == FMul(area, h_cylinder)
  IN  IF FLess(cylinder_max_volume, liquid_volume) THEN RaisesValueError
      ELSE Returns(FDiv(liquid_volume, area))

\* bottom_radius**2 + bottom_radius * top_radius + top_radius**2
FrustumShape(bottom_radius, top_radius) ==
  FAdd(FAdd(FMul(bottom_radius, bottom_radius), FMul(bottom_radius, top_radius)),
       FMul(top_radius, top_radius))

compute_volume_from_height_conical_frustum(liquid_height, bottom_radius, top_radius) ==
  FMul(FMul(FMul(OneThird, math_pi), liquid_height),
       FrustumShape(bottom_radius, top_radius))

\* the height of a cylinder of the same shape factor: the 3 is left out
compute_height_from_volume_conical_frustum_cylinder(liquid_volume, bottom_radius, top_radius) ==
  FDiv(liquid_volume,
       FMul(math_pi, FrustumShape(bottom_radius, top_radius)))

compute_height_from_volume_conical_frustum(liquid_volume, bottom_radius, top_radius) ==
  FDiv(FMul(F3, liquid_volume),
       FMul(math_pi, FrustumShape(bottom_radius, top_radius)))

\* the callers of the solvers pass any float >= 0: the lengths (mm) and, per
\* shape, volumes at, below and above the shape's capacity
Lengths == {Norm(1, 0 - 8), Norm(3, 0 - 9), Norm(5, 0 - 7)}
Radii == {Norm(1, 0 - 8), Norm(3, 0 - 9), Norm(5, 0 - 8)}
CylinderHeights == Lengths \cup {FZero}

\* the next float above c
NextUp(c) ==
  IF c.m = 0 THEN Norm(1, 0 - 99)
  ELSE IF c.m + 1 = 2^Precision THEN [m |-> 2^(Precision - 1), e |-> c.e + 1]
  ELSE [m |-> c.m + 1, e |-> c.e]

VolumesAround(c) ==
  {FZero, FDiv(c, F3), FDiv(c, F2), c, NextUp(c), FMul(c, F2)}

\* the state of the caller after f(args, liquid_volume) gave res
Called(f, args, liquid_volume, res) ==
  [pc |-> CASE res.out = "ok" -> "returned"
            [] res.out = "ValueError" -> "raised"
            [] OTHER -> "stuck",
   fn |-> f, args |-> args, liquid_volume |-> liquid_volume, val |-> res.val]

\* (2/3) * math.pi * r**3, the capacity of the hemisphere as the callers
\* compute it
hemisphere_volume(r) ==
  FMul(FMul(TwoThirds, math_pi), FMul(FMul(r, r), r))

\* the capacity of each two-segment shape, as a float
SquareVBottomCapacity(x, y, h_pyramid, h_cube) ==
  FAdd(FMul(FMul(OneThird, FMul(x, y)), h_pyramid), FMul(FMul(x, y), h_cube))

SquareUBottomCapacity(x, h_cuboid) ==
  FAdd(hemisphere_volume(FDiv(x, F2)), FMul(FMul(x, x), h_cuboid))

RoundVBottomCapacity(d, h_cone, h_cylinder) ==
  LET base_area == FMul(math_pi, FMul(FDiv(d, F2), FDiv(d, F2)))
  IN  FAdd(FMul(FMul(OneThird, base_area), h_cone), FMul(base_area, h_cylinder))

RoundUBottomCapacity(d, h_cylinder) ==
  LET base_area == FMul(math_pi, FMul(FDiv(d, F2), FDiv(d, F2)))
  IN  FAdd(hemisphere_volume(FDiv(d, F2)), FMul(base_area, h_cylinder))

RoundFBottomCapacity(d, h_cylinder) ==
  FMul(FMul(math_pi, FMul(FDiv(d, F2), FDiv(d, F2))), h_cylinder)

\* the volumes and heights given to the frustum functions
FrustumAmounts ==
  {FZero} \cup {Norm(m, e) : m \in {1, 3, 7, 10}, e \in {0 - 3, 0, 2}}

\* a call about to be made: f(args, liquid_volume)
Pending(f, args, liquid_volume) ==
  [pc |-> "call", fn |-> f, args |-> args, liquid_volume |-> liquid_volume]

Calls ==
  UNION {{Pending("spherical_cap", <<r>>, v) :
            v \in VolumesAround(max_volume(r)) \cup {hemisphere_volume(r)}} :
         r \in Radii}
  \cup UNION {{Pending("square_vbottom", <<x, x, h_pyramid, h_cube>>, v) :
                 v \in VolumesAround(SquareVBottomCapacity(x, x, h_pyramid, h_cube))} :
              <<x, h_pyramid, h_cube>> \in Lengths \X Lengths \X CylinderHeights}
  \cup UNION {{Pending("square_ubottom", <<x, h_cuboid>>, v) :
                 v \in VolumesAround(SquareUBottomCapacity(x, h_cuboid))} :
              <<x, h_cuboid>> \in Lengths \X CylinderHeights}
  \cup UNION {{Pending("round_vbottom", <<d, h_cone, h_cylinder>>, v) :
                 v \in VolumesAround(RoundVBottomCapacity(d, h_cone, h_cylinder))} :
              <<d, h_cone, h_cylinder>> \in Lengths \X Lengths \X CylinderHeights}
  \cup UNION {{Pending("round_ubottom", <<d, h_cylinder>>, v) :
                 v \in VolumesAround(RoundUBottomCapacity(d, h_cylinder))} :
              <<d, h_cylinder>> \in Lengths \X CylinderHeights}
  \cup UNION {{Pending("round_fbottom", <<d, h_cylinder>>, v) :
                 v \in VolumesAround(RoundFBottomCapacity(d, h_cylinder))} :
              <<d, h_cylinder>> \in Lengths \X CylinderHeights}
  \cup {Pending(f, <<bottom_radius, top_radius>>, a) :
          <<f, bottom_radius, top_radius, a>> \in
            {"frustum_height", "frustum_volume"} \X (Lengths \cup {FZero}) \X Lengths \X FrustumAmounts}

HeightsUnchanged ==
  UNCHANGED <<parent, children, location, sites, did_assign_cbs,
              did_unassign_cbs, last, lay, pump, fan, trash96>>

InitHeights ==
  /\ TreeIs(EmptyTree({"well"}))
  /\ last = NoCall
  /\ lay = NoLay
  /\ pump = NoPump
  /\ fan = NoFan
  /\ trash96 = Unset
  /\ calc \in Calls

\* the call f is made
Calling(f) == calc.pc = "call" /\ calc.fn = f

\* _height_of_volume_in_spherical_cap(r, liquid_volume), up to the loop
CapCall ==
  /\ Calling("spherical_cap")
  /\ calc' = IF FLess(max_volume(calc.args[1]), calc.liquid_volume)
               THEN Called(calc.fn, calc.args, calc.liquid_volume, RaisesValueError)
               ELSE [pc |-> "loop", fn |-> calc.fn, args |-> calc.args,
                     liquid_volume |-> calc.liquid_volume,
                     low |-> FZero, high |-> calc.args[1]]
  /\ HeightsUnchanged

\* one pass of the while loop
CapIterate ==
  /\ calc.pc = "loop"
  /\ LoopCondition(calc.low, calc.high)
  /\ LET nb == Iterate(calc.args[1], calc.liquid_volume,
                       [low |-> calc.low, high |-> calc.high])
     IN  calc' = [calc EXCEPT !.low = nb.low, !.high = nb.high]
  /\ HeightsUnchanged

\* the loop is left: liquid_height = (low + high) / 2
CapReturn ==
  /\ calc.pc = "loop"
  /\ ~LoopCondition(calc.low, calc.high)
  /\ calc' = Called(calc.fn, calc.args, calc.liquid_volume,
                    Returns(Mid(calc.low, calc.high)))
  /\ HeightsUnchanged

SquareVBottom ==
  /\ Calling("square_vbottom")
  /\ calc' = Called(calc.fn, calc.args, calc.liquid_volume,
               calculate_liquid_height_in_container_2segments_square_vbottom(
                 calc.args[1], calc.args[2], calc.args[3], calc.args[4],
                 calc.liquid_volume))
  /\ HeightsUnchanged

SquareUBottom ==
  /\ Calling("square_ubottom")
  /\ calc' = Called(calc.fn, calc.args, calc.liquid_volume,
               calculate_liquid_height_in_container_2segments_square_ubottom(
                 calc.args[1], calc.args[2], calc.liquid_volume))
  /\ HeightsUnchanged

RoundVBottom ==
  /\ Calling("round_vbottom")
  /\ calc' = Called(calc.fn, calc.args, calc.liquid_volume,
               calculate_liquid_height_in_container_2segments_round_vbottom(
                 calc.args[1], calc.args[2], calc.args[3], calc.liquid_volume))
  /\ HeightsUnchanged

RoundUBottom ==
  /\ Calling("round_ubottom")
  /\ calc' = Called(calc.fn, calc.args, calc.liquid_volume,
               calculate_liquid_height_in_container_2segments_round_ubottom(
                 calc.args[1], calc.args[2], calc.liquid_volume))
  /\ HeightsUnchanged

RoundFBottom ==
  /\ Calling("round_fbottom")
  /\ calc' = Called(calc.fn, calc.args, calc.liquid_volume,
               calculate_liquid_height_container_1segment_round_fbottom(
                 calc.args[1], calc.args[2], calc.liquid_volume))
  /\ HeightsUnchanged

FrustumHeight ==
  /\ Calling("frustum_height")
  /\ calc' = Called(calc.fn, calc.args, calc.liquid_volume,
               Returns(compute_height_from_volume_conical_frustum(
                         calc.liquid_volume, calc.args[1], calc.args[2])))
  /\ HeightsUnchanged

\* the argument of compute_volume_from_height_conical_frustum is a height
FrustumVolume ==
  /\ Calling("frustum_volume")
  /\ calc' = Called(calc.fn, calc.args, calc.liquid_volume,
               Returns(compute_volume_from_height_conical_frustum(
                         calc.liquid_volume, calc.args[1], calc.args[2])))
  /\ HeightsUnchanged

NextHeights ==
  \/ CapCall
  \/ CapIterate
  \/ CapReturn
  \/ SquareVBottom
  \/ SquareUBottom
  \/ RoundVBottom
  \/ RoundUBottom
  \/ RoundFBottom
  \/ FrustumHeight
  \/ FrustumVolume

SpecHeights == InitHeights /\ [][NextHeights]_vars

-----------------------------------------------------------------------------
(* The spherical-cap bisection                                             *)

\* the call of _height_of_volume_in_spherical_cap is in its while loop
InLoop == calc.pc = "loop"

\* the call of _height_of_volume_in_spherical_cap has returned
CapReturned == calc.pc = "returned" /\ calc.fn = "spherical_cap"

\* the bracket of the loop, and the bracket after one more pass
Bracket == [low |-> calc.low, high |-> calc.high]
NextBracket == Iterate(calc.args[1], calc.liquid_volume, Bracket)

\* high - low
Width(b) == FSub(b.high, b.low)

\* C23: the bisection terminates for every radius r > 0 and every volume
\* from 0 to the volume of the hemisphere: every pass of the while loop
\* leaves a strictly narrower bracket (half as wide, up to the rounding of
\* the midpoint), so that the width that stops the loop, 1e-6, is reached;
\* and the height returned lies in [0, r].
C23_BisectionTerminates ==
  /\ InLoop /\ LoopCondition(calc.low, calc.high) =>
       FLess(Width(NextBracket), Width(Bracket))
  /\ CapReturned => FLeq(calc.val, calc.args[1])

-----------------------------------------------------------------------------
(* Volumes at and above the capacity of a shape                            *)

\* the capacity of the shape of the current call
Capacity ==
  CASE calc.fn = "spherical_cap" -> hemisphere_volume(calc.args[1])
    [] calc.fn = "square_vbottom" ->
         SquareVBottomCapacity(calc.args[1], calc.args[2], calc.args[3], calc.args[4])
    [] calc.fn = "square_ubottom" -> SquareUBottomCapacity(calc.args[1], calc.args[2])
    [] calc.fn = "round_vbottom" ->
         RoundVBottomCapacity(calc.args[1], calc.args[2], calc.args[3])
    [] calc.fn = "round_ubottom" -> RoundUBottomCapacity(calc.args[1], calc.args[2])
    [] calc.fn = "round_fbottom" -> RoundFBottomCapacity(calc.args[1], calc.args[2])

HasCapacity == calc.fn \notin {"frustum_height", "frustum_volume"}

\* the call is over, or will never be
Settled == calc.pc \in {"returned", "raised", "stuck"}

\* C21: for every shape with a capacity, the height-from-volume function
\* raises the overflow error for every volume strictly greater than the
\* capacity, and returns a height for the volume equal to the capacity.
C21_OverflowAtCapacity ==
  HasCapacity =>
    /\ Settled /\ FLess(Capacity, calc.liquid_volume) => calc.pc = "raised"
    /\ Settled /\ calc.liquid_volume = Capacity => calc.pc = "returned"

-----------------------------------------------------------------------------
(* The conical frustum: height from volume and back                        *)

\* compute_height_from_volume_conical_frustum has returned calc.val
FrustumHeightReturned == calc.pc = "returned" /\ calc.fn = "frustum_height"

\* the volume of the height that was returned
VolumeBack ==
  compute_volume_from_height_conical_frustum(calc.val, calc.args[1], calc.args[2])

\* | a - b |
FDistance(a, b) == IF FLess(a, b) THEN FSub(b, a) ELSE FSub(a, b)

\* the relative tolerance of the round trip, 1e-3
RelativeTolerance == Norm(1073742, 0 - 30)

-----------------------------------------------------------------------------
(* What the bisection keeps between its passes                             *)

\* V(h) of the current call
V(h) == volume_of_spherical_cap(calc.args[1], h)

\* C33: in the spherical-cap bisection every pass keeps
\* 0 <= low <= high <= r and V(low) <= volume <= V(high); low never
\* decreases and high never increases.
C33_BracketKept ==
  InLoop =>
    /\ FLeq(calc.low, calc.high)
    /\ FLeq(calc.high, calc.args[1])
    /\ FLeq(V(calc.low), calc.liquid_volume)
    /\ FLeq(calc.liquid_volume, V(calc.high))
    /\ LoopCondition(calc.low, calc.high) =>
         /\ FLeq(calc.low, NextBracket.low)
         /\ FLeq(NextBracket.high, calc.high)

\* the loop has moved both ends of the bracket and has a pass to make
C33_Witness ==
  /\ InLoop
  /\ calc.low # FZero
  /\ calc.high # calc.args[1]
  /\ LoopCondition(calc.low, calc.high)

-----------------------------------------------------------------------------
(* HamiltonHepaFan (only_fan/hamilton_hepa_fan.py)                         *)
(*                                                                         *)
(* A command is the hex text of its bytes. A speed argument is any Python  *)
(* value: [ty, num, den] is the int, bool or float num/den, or a str, or   *)
(* None (num and den are 0 and 1 for the last two).                        *)

FanOk(f) == [out |-> "ok", f |-> f]
FanRaise(e, f) == [out |-> e, f |-> f]

\* self.dev.write(command), await asyncio.sleep(0.1), self.dev.read(64)
send(f, command) ==
  IF f.dev = None THEN FanRaise("AttributeError", f)
  ELSE IF f.dev = "closed" THEN FanRaise("FtdiError", f)
  ELSE FanOk([f EXCEPT !.written = Append(@, command)])

RECURSIVE send_all(_, _)
\* the sends of a list of commands, up to the first that raises
send_all(f, commands) ==
  IF commands = <<>> THEN FanOk(f)
  ELSE LET r == send(f, Head(commands))
       IN  IF r.out # "ok" THEN r ELSE send_all(r.f, Tail(commands))

\* the five commands of setup()
setup_commands ==
  <<"55c10102234b", "55c10108086a", "55c101096a09", "55c1010a2f4f", "1561018a">>

HamiltonHepaFan_setup(f) ==
  send_all([f EXCEPT !.dev = "open"], setup_commands)

turn_on == "354101ff75"

speed_array ==
  <<
   "55c10111007b", "55c101110279", "55c10111057e", "55c10111077c", "55c101110a71", "55c101110c77",
   "55c101110f74", "55c10111116a", "55c10111146f", "55c10111166d", "55c101111962", "55c101111c67",
   "55c101111e65", "55c10111215a", "55c101112358", "55c10111265d", "55c101112853", "55c101112b50",
   "55c101112d56", "55c10111304b", "55c101113249", "55c10111354e", "55c101113843", "55c101113a41",
   "55c101113d46", "55c101113f44", "55c101114239", "55c10111443f", "55c10111473c", "55c101114932",
   "55c101114c37", "55c101114f34", "55c10111512a", "55c10111542f", "55c10111562d", "55c101115922",
   "55c101115b20", "55c101115e25", "55c10111601b", "55c101116318", "55c10111651e", "55c101116813",
   "55c101116b10", "55c101116d16", "55c10111700b", "55c101117209", "55c10111750e", "55c10111770c",
   "55c101117a01", "55c101117c07", "55c101117f04", "55c1011182f9", "55c1011184ff", "55c1011187fc",
   "55c1011189f2", "55c101118cf7", "55c101118ef5", "55c1011191ea", "55c1011193e8", "55c1011196ed",
   "55c1011198e3", "55c101119be0", "55c101119ee5", "55c10111a0db", "55c10111a3d8", "55c10111a5de",
   "55c10111a8d3", "55c10111aad1", "55c10111add6", "55c10111afd4", "55c10111b2c9", "55c10111b5ce",
   "55c10111b7cc", "55c10111bac1", "55c10111bcc7", "55c10111bfc4", "55c10111c1ba", "55c10111c4bf",
   "55c10111c6bd", "55c10111c9b2", "55c10111cbb0", "55c10111ceb5", "55c10111d1aa", "55c10111d3a8",
   "55c10111d6ad", "55c10111d8a3", "55c10111dba0", "55c10111dda6", "55c10111e09b", "55c10111e299",
   "55c10111e59e", "55c10111e893", "55c10111ea91", "55c10111ed96", "55c10111ef94", "55c10111f289",
   "55c10111f48f", "55c10111f78c", "55c10111f982", "55c10111fc87", "55c10111fe85"
  >>

\* int(speed) raises
IntRaises(speed) == speed.ty \in {"None", "str"}

\* int(speed) != speed or not 0 <= speed <= 100
NotAnIntValue(speed) ==
  \/ speed.num % speed.den # 0
  \/ speed.num < 0
  \/ speed.num > 100 * speed.den

\* speed_array[speed]: a list index is an int (a bool is one), not a float
IsIndex(speed) == speed.ty \in {"int", "bool"}

HamiltonHepaFan_turn_on_fan(f, speed) ==
  IF speed.ty = "None" THEN FanRaise("TypeError", f)
  ELSE IF speed.ty = "str" \/ NotAnIntValue(speed) THEN FanRaise("ValueError", f)
  ELSE LET r == send(f, turn_on)
       IN  IF r.out # "ok" THEN r
           ELSE IF ~IsIndex(speed) THEN FanRaise("TypeError", r.f)
           ELSE send(r.f, speed_array[speed.num \div speed.den + 1])

HamiltonHepaFan_stop_fan(f) == send(f, "55c10111007b")

\* if self.dev is not None: self.dev.close()
HamiltonHepaFan_stop(f) ==
  IF f.dev = None THEN FanRaise("AttributeError", f)
  ELSE FanOk([f EXCEPT !.dev = "closed"])

Number(ty, num, den) == [ty |-> ty, num |-> num, den |-> den]

\* the speeds given to turn_on_fan: ints, True, 50.0, 50.5, "50" and None
FanSpeeds ==
  {Number("int", n, 1) : n \in {0 - 1, 0, 1, 50, 100, 101}}
  \cup {Number("bool", 1, 1), Number("float", 50, 1), Number("float", 101, 2),
        Number("str", 0, 1), Number("None", 0, 1)}

FanBecomes(r, op, arg) ==
  /\ Len(r.f.written) <= MaxWritten
  /\ fan' = r.f
  /\ last' = [op |-> op, self |-> "fan", resource |-> None, arg |-> arg,
              out |-> r.out, val |-> None]
  /\ UNCHANGED <<parent, children, location, sites, did_assign_cbs,
                 did_unassign_cbs, lay, pump, calc, trash96>>

InitFan ==
  /\ TreeIs(EmptyTree({"fan"}))
  /\ last = NoCall
  /\ lay = NoLay
  /\ pump = NoPump
  /\ calc = NoCalc
  /\ fan = NoFan
  /\ trash96 = Unset

FanSetup == FanBecomes(HamiltonHepaFan_setup(fan), "setup", <<>>)

TurnOnFan ==
  \E speed \in FanSpeeds :
    FanBecomes(HamiltonHepaFan_turn_on_fan(fan, speed), "turn_on_fan", speed)

StopFan == FanBecomes(HamiltonHepaFan_stop_fan(fan), "stop_fan", <<>>)

FanStop == FanBecomes(HamiltonHepaFan_stop(fan), "stop", <<>>)

NextFan ==
  \/ FanSetup
  \/ TurnOnFan
  \/ StopFan
  \/ FanStop

SpecFan == InitFan /\ [][NextFan]_vars

\* the commands that a call added to the device
Added(f, r) == SubSeq(r.f.written, Len(f.written) + 1, Len(r.f.written))

\* C34: turn_on_fan(speed) raises an error and writes nothing when speed is
\* not an integer value between 0 and 100; for every speed that passes the
\* validation it writes the turn-on command and then exactly one speed
\* command, the table's entry for that speed; the table has an entry for
\* every speed 0..100, the entry for 0 being the command of stop_fan.
C34_TurnOnThenSpeed ==
  /\ Len(speed_array) = 101
  /\ fan.dev = "open" =>
       /\ Added(fan, HamiltonHepaFan_stop_fan(fan)) = <<speed_array[1]>>
       /\ \A speed \in FanSpeeds :
            LET r == HamiltonHepaFan_turn_on_fan(fan, speed)
            IN  IF IntRaises(speed) \/ speed.ty = "str" \/ NotAnIntValue(speed)
                  THEN r.out # "ok" /\ r.f = fan
                  ELSE /\ r.out = "ok"
                       /\ Added(fan, r) =
                            <<turn_on, speed_array[speed.num \div speed.den + 1]>>

-----------------------------------------------------------------------------
(* The rail shown by the deck summary                                      *)

STAR_NUM_RAILS == 55

\* int(q) of the quotient a / b, b > 0: towards zero
IntOfQuotient(a, b) == IF a >= 0 THEN a \div b ELSE 0 - ((0 - a) \div b)

\* the rail numbered from 0: the + 1 is left out
rails_for_x_coordinate_from_zero(x) ==
  IntOfQuotient(x - 100000, RAILS_WIDTH)

\* _rails_for_x_coordinate(x)
rails_for_x_coordinate(x) ==
  IntOfQuotient(x - 100000, RAILS_WIDTH) + 1

\* the rail parse_resource shows for a resource of the tree t
ShownRail(t, resource) == rails_for_x_coordinate(t.location[resource][1])

\* C32: the rail number shown by the deck summary is the inverse of the
\* rail mapping: _rails_for_x_coordinate(rails_to_location(r).x) = r for
\* every rail r, so a resource placed with rails = r is shown at rail r;
\* rails_to_location increases by 22.5 mm in x per rail, y and z constant.
C32_RailsInverse ==
  /\ \A r \in 1..STAR_NUM_RAILS :
       rails_for_x_coordinate(rails_to_location(r)[1]) = r
  /\ \A r \in 1..(STAR_NUM_RAILS - 1) :
       rails_to_location(r + 1) =
         CoordAdd(rails_to_location(r), Coordinate(RAILS_WIDTH, 0, 0))
  /\ \A resource \in DeckObjs, r \in 1..NumRails, replace \in BOOLEAN :
       LET a == HamiltonDeck_assign_child_resource(St, "deck", resource, NoLoc,
                                                   <<r>>, replace)
       IN  a.out = "ok" => ShownRail(a.t, resource) = r

\* a resource was placed on the deck with rails = 2
C32_Witness ==
  /\ last.op = "deck.assign_child_resource"
  /\ last.out = "ok"
  /\ last.resource \in DeckChildren
  /\ location[last.resource] = rails_to_location(2)

-----------------------------------------------------------------------------
(* The 96-head trash of a STAR deck (hamilton_decks.py 386-405)            *)

\* what is put on and taken off the deck
TrashObjs == {"trash", "trash_core96", "core96b"}
TrashU == {"deck"} \cup TrashObjs

\* where the callers place these resources
TrashPlaces ==
  {<<Coordinate(0 - 232100, 110300, 189000), NoRails>>,
   <<Coordinate(100000, 560000, 100000), NoRails>>,
   <<NoLoc, <<1>> >>}

\* HamiltonSTARDeck.get_trash_area96(): return self._trash96
get_trash_area96(t, self, attr) ==
  IF attr = Unset THEN Raise("AttributeError", t)
  ELSE OkVal(t, attr)

\* HamiltonSTARDeck(..., no_trash=no_trash)
InitTrash ==
  /\ \E no_trash \in BOOLEAN :
       /\ TreeIs(IF no_trash THEN EmptyTree(TrashU)
                 ELSE HamiltonSTARDeck_init(EmptyTree(TrashU), "deck", STARLET_SIZE_X))
       /\ trash96 = IF no_trash THEN Unset ELSE "trash_core96"
  /\ last = NoCall
  /\ lay = NoLay
  /\ pump = NoPump
  /\ calc = NoCalc
  /\ fan = NoFan

TrashAssign ==
  \E resource \in TrashObjs, place \in TrashPlaces, replace \in BOOLEAN :
    DeckAssign(resource, place[1], place[2], replace)

TrashUnassign == \E resource \in TrashObjs : DeckUnassign(resource)

GetTrashArea96 ==
  /\ last' = Call("get_trash_area96", "deck", None, <<>>,
                  get_trash_area96(St, "deck", trash96))
  /\ UNCHANGED <<parent, children, location, sites, did_assign_cbs,
                 did_unassign_cbs, lay, pump, calc, fan, trash96>>

NextTrash ==
  \/ TrashAssign
  \/ TrashUnassign
  \/ GetTrashArea96

SpecTrash == InitTrash /\ [][NextTrash]_vars

\* C31: in every state reached by assignments (replace = True included) and
\* unassignments, get_trash_area96() returns without error a resource named
\* 'trash_core96' that is a child of the deck; a deck built without
\* no_trash starts with exactly the children 'trash' and 'trash_core96'.
C31_TrashArea96 ==
  LET r == get_trash_area96(St, "deck", trash96)
  IN  /\ r.out = "ok"
      /\ Name(r.val) = "trash_core96"
      /\ r.val \in DeckChildren
      /\ last = NoCall => children["deck"] = <<"trash", "trash_core96">>

=============================================================================
